---- MODULE Spec2Model ----
(***************************************************************************)
(* news_explorer: the crawl frontier (Scrapy spiders), the batch files the *)
(* launch scripts hand over, and the merge scripts that fold a batch into  *)
(* the committed CSV.                                                      *)
(*                                                                         *)
(* A CSV file is a record [st, rows]: st is "missing" (no such path),      *)
(* "zero" (a 0-byte file, on which pandas.read_csv raises EmptyDataError)  *)
(* or "table" (a header line followed by rows).  A row keeps the columns   *)
(* the scripts read: url, published_date (pd) and scraped_at (sa).         *)
(* Timestamps and dates are small naturals; 0 is the empty / unparseable   *)
(* text that pandas.to_datetime(errors="coerce") turns into NaT.           *)
(***************************************************************************)
EXTENDS Integers, Sequences, FiniteSets, TLC

\* --------------------------------------------------------------- bounds
MaxOld == 2          \* rows of the committed file in an initial state
MaxNew == 1          \* rows of a batch file in an initial state
MaxDate == 2         \* calendar dates are 1..MaxDate
MaxArticles == 3     \* stubs a site lists in an initial state of a crawl
PageSize == 2        \* stubs on one listing page
MaxBudget == 2       \* largest max_pages argument tried
MaxCycles == 2       \* daily cycles in one behaviour
MaxSecLen == 3       \* stubs the first section of worldoil_latest lists
MaxDetail == 2       \* stubs of the site when the article pages vary

\* ------------------------------------------------------ program constants
\* merge_jpt_csv.py: floor on unique urls of the master (7000 in the source,
\* scaled to the size of the files of this model).
MIN_UNIQUE_URLS == 2
\* merge_jpt_csv.py: latest allowed earliest date (2014-01-01 in the source,
\* scaled to the dates 1..2 of this model).
MAX_ALLOWED_MIN_DATE == 1

\* ------------------------------------------------------------ value sets
NaT == 0
None == 0
ValidDates == 1..MaxDate
\* the text "NaT" that Series.dt.date.astype(str) writes for a missing date;
\* as a string it sorts above every ISO date ('N' > '2').
NaTText == MaxDate + 1
ScrapedAts == {0, 1, 2}
InUrls == {"", "a", "b"}

\* In the inputs of the merge specifications the published date of an
\* article is a property of the article.
PdOf(u) == CASE u = "a" -> 1 [] u = "b" -> 2 [] OTHER -> 0

InRows == {[url |-> u, pd |-> PdOf(u), sa |-> s, source |-> ""] : u \in InUrls, s \in ScrapedAts}

SeqsUpTo(S, n) == UNION {[1..k -> S] : k \in 0..n}

Missing == [st |-> "missing", rows |-> <<>>]
ZeroByte == [st |-> "zero", rows |-> <<>>]
Table(rs) == [st |-> "table", rows |-> rs]

\* ------------------------------------------------------- pandas helpers
\* pandas.to_datetime(errors="coerce") on a published_date column
ToDatetimePd(d) == IF d \in ValidDates THEN d ELSE NaT
\* pandas.to_datetime(errors="coerce") on a scraped_at column
ToDatetimeSa(s) == IF s >= 1 THEN s ELSE NaT

Range(s) == {s[i] : i \in 1..Len(s)}
MaxOf(S) == CHOOSE m \in S : \A x \in S : x <= m
UrlsOf(rs) == {rs[i].url : i \in 1..Len(rs)}
\* Series.nunique(): missing values are not counted
NUnique(rs) == Cardinality(UrlsOf(rs) \ {""})

\* the subsequence of s at the indices in idx
SelectIdx(s, idx) ==
  LET nth(k) == CHOOSE i \in idx : Cardinality({j \in idx : j < i}) = k - 1
  IN [k \in 1..Cardinality(idx) |-> s[nth(k)]]

\* ascending, na_position="last"
AscNaLast(x, y) == (x # NaT) /\ (y = NaT \/ x < y)
\* descending, na_position="last"
DescNaLast(x, y) == (x # NaT) /\ (y = NaT \/ x > y)

\* lexicographic order of the url strings of this model
UrlRank(u) == CASE u = "" -> 0 [] u = "a" -> 1 [] u = "b" -> 2 [] u = "c" -> 3
                [] u = "d" -> 4 [] u = "e" -> 5 [] OTHER -> 6

\* the sort keys of the scripts, each as the strict order of two rows
\* update_csv.py line 119, merge_three_way.py line 47
BySaAsc(x, y) == AscNaLast(x.sa, y.sa)
\* update_csv.py lines 128-132, merge_three_way.py lines 55-57
ByPdSaDesc(x, y) == DescNaLast(x.pd, y.pd) \/ (x.pd = y.pd /\ DescNaLast(x.sa, y.sa))
\* merge_jpt_csv.py lines 140-141
ByUrlScraped(x, y) ==
  \/ UrlRank(x.url) < UrlRank(y.url)
  \/ (x.url = y.url /\ AscNaLast(ToDatetimeSa(x.sa), ToDatetimeSa(y.sa)))
\* merge_jpt_csv.py lines 145-146, update_jpt_csv.py lines 58-59
ByPubDesc(x, y) == DescNaLast(ToDatetimePd(x.pd), ToDatetimePd(y.pd))
\* merge_worldoil.py lines 57-63
ByPdSaAsc(x, y) == AscNaLast(x.pd, y.pd) \/ (x.pd = y.pd /\ AscNaLast(x.sa, y.sa))

\* the strict order the sort_values call named by `by` sorts with
Less(by, x, y) ==
  CASE by = "scraped_at asc" -> BySaAsc(x, y)
    [] by = "published_date, scraped_at desc" -> ByPdSaDesc(x, y)
    [] by = "url, _scraped asc" -> ByUrlScraped(x, y)
    [] by = "_pub desc" -> ByPubDesc(x, y)
    [] by = "published_date, scraped_at asc" -> ByPdSaAsc(x, y)

\* DataFrame.sort_values with a stable algorithm (kind="mergesort", or the
\* lexsort used for several keys)
StableSort(s, by) ==
  LET n == Len(s)
      rank(i) == Cardinality({j \in 1..n :
                    \/ Less(by, s[j], s[i])
                    \/ (~Less(by, s[i], s[j]) /\ ~Less(by, s[j], s[i]) /\ j < i)})
  IN [k \in 1..n |-> s[CHOOSE i \in 1..n : rank(i) = k - 1]]

\* DataFrame.sort_values with the default kind="quicksort" on one key: the
\* order of rows with equal keys is not specified.
UnstableSorts(s, by) ==
  LET n == Len(s)
      tied == \E i, j \in 1..n : i < j /\ ~Less(by, s[i], s[j]) /\ ~Less(by, s[j], s[i])
      perms == {p \in [1..n -> 1..n] : \A i, j \in 1..n : i # j => p[i] # p[j]}
  IN IF ~tied THEN {StableSort(s, by)}
     ELSE {[k \in 1..n |-> s[p[k]]] : p \in
            {q \in perms : \A i, j \in 1..n : i < j => ~Less(by, s[q[j]], s[q[i]])}}

\* variant: drop_duplicates() without subset=["url"] compares whole rows
DropDuplicatesWholeRow(rs) ==
  SelectIdx(rs, {i \in 1..Len(rs) : \A j \in (i + 1)..Len(rs) : rs[j] # rs[i]})

\* DataFrame.drop_duplicates(subset=["url"], keep="last")
DropDuplicatesKeepLast(rs) ==
  SelectIdx(rs, {i \in 1..Len(rs) : \A j \in (i + 1)..Len(rs) : rs[j].url # rs[i].url})

\* ------------------------------------------------------------------ state
VARIABLES
  committed,   \* the committed CSV (jpt.csv / worldoil.csv)
  batch,       \* the batch file of the last scrape (_new.csv, jpt_new.csv, *_daily.csv)
  tmpfile,     \* the sibling temporary file (<committed>.csv.tmp)
  master,      \* the hand-kept full history (jpt_master.csv / worldoil_full.csv)
  script,      \* the merge script that ran last or is running
  pc,          \* where the running script is: "idle" when none runs
  outcome,     \* how the last script ended
  pre,         \* the committed file as the running/last merge found it
  preBatch,    \* the batch file as the running/last merge found it
  out,         \* the merged rows the running script is about to write
  runsLeft,    \* script runs the behaviour may still start
  spider,      \* the spider of the running/last crawl
  site,        \* the stubs the site lists, in listing order
  max_pages,   \* spider argument
  last_date,   \* spider attribute: the hard-stop date, None when off
  pages_seen,  \* spider attribute
  listingQ,    \* listing pages requested and not yet answered
  detailQ,     \* detail requests scheduled and not yet answered
  items,       \* the records the crawl has emitted, in order
  scheduled,   \* history: positions of the stubs a detail fetch was yielded for
  listed,      \* history: listing pages ever requested
  stopAt,      \* history: position of the stub that triggered the hard stop, 0 if none
  now,         \* the clock that stamps scraped_at
  sections,    \* worldoil_latest: the stubs each section listing shows
  seen_urls,   \* worldoil_latest: spider attribute
  titles,      \* the title text the listing shows for each article url
  detail_pages,\* the label texts each article page holds, by selector
  retry_times, \* retries the retry middleware has made for a detail request
  dropped,     \* history: positions of the stubs whose detail request was given up
  phrase,      \* app: the text handed to normalize_phrase
  acronyms,    \* app: the acronym set
  shown,       \* app: the successive results of normalize_phrase
  master_tags, \* app: the tag column of all_tags.csv
  tags,        \* app: the tags of an article row
  topics,      \* app: the topics of an article row
  tags_norm,   \* app: the row's tags_norm column
  topics_norm, \* app: the row's topics_norm column
  country_set, \* app: the recognised country names
  countries,   \* app: the row's countries column
  formats      \* the delimiter and the identity header of jpt.csv and jpt_new.csv

fileVars == <<committed, batch, tmpfile, master>>
runVars == <<script, pc, outcome, pre, preBatch, out, runsLeft>>
crawlVars == <<spider, site, max_pages, last_date, pages_seen, listingQ, detailQ,
               items, scheduled, listed, stopAt, now>>
vars == <<committed, batch, tmpfile, master, script, pc, outcome, pre, preBatch, out,
          runsLeft, spider, site, max_pages, last_date, pages_seen, listingQ, detailQ,
          items, scheduled, listed, stopAt, now, sections, seen_urls, titles,
          detail_pages, retry_times, dropped, phrase, acronyms, shown, master_tags,
          tags, topics, tags_norm, topics_norm, country_set, countries, formats>>
appVars == <<phrase, acronyms, shown, master_tags, tags, topics, tags_norm,
             topics_norm, country_set, countries>>
extVars == <<sections, seen_urls, titles, detail_pages, retry_times, dropped, appVars,
             formats>>

\* the header "url", and a comma-separated file headed by it on both paths
UrlHeader == <<"u", "r", "l">>
DefaultFormats ==
  [master |-> [sep |-> ",", head |-> UrlHeader], new |-> [sep |-> ",", head |-> UrlHeader]]

\* the app has loaded nothing, the files are as the scripts write them
NoApp ==
  /\ formats = DefaultFormats
  /\ phrase = <<>>
  /\ acronyms = {}
  /\ shown = <<>>
  /\ master_tags = <<>>
  /\ tags = <<>>
  /\ topics = <<>>
  /\ tags_norm = <<>>
  /\ topics_norm = <<>>
  /\ country_set = {}
  /\ countries = <<>>

\* the article urls of the site
AllUrls == {"a", "b", "c", "d", "e"}
\* title texts of a stub: none, plain, padded with whitespace
TitleTexts == {"", "T", " T "}
\* the text nodes a label selector returns: nothing, one label, or a
\* whitespace node and a label that is repeated with padding
LabelLists == {<<>>, <<"Drilling">>, <<" ", "Drilling", " Drilling">>}
\* an article page: the labels the primary xpath finds under the
\* Topics / Tags headings (ptopics, ptags), the labels the fallback css
\* finds (ftopics, ftags), and the a[href^='/topics/'] labels (labels)
DetailPages ==
  [ptopics : LabelLists, ptags : LabelLists, ftopics : LabelLists, ftags : LabelLists,
   labels : {<<>>}]
DefaultPage ==
  [ptopics |-> <<>>, ptags |-> <<>>, ftopics |-> <<>>, ftags |-> <<>>, labels |-> <<>>]

\* no worldoil_latest crawl, plain titles and pages, and no request was ever
\* retried
NoExt ==
  /\ sections = <<>>
  /\ seen_urls = {}
  /\ titles = [u \in AllUrls |-> "T"]
  /\ detail_pages = [u \in AllUrls |-> DefaultPage]
  /\ retry_times = <<>>
  /\ dropped = {}
  /\ NoApp

OldFiles == {Missing, ZeroByte} \cup {Table(rs) : rs \in SeqsUpTo(InRows, MaxOld)}
NewFiles == {Missing, ZeroByte} \cup {Table(rs) : rs \in SeqsUpTo(InRows, MaxNew)}

\* a script ends without writing
EndWith(o) ==
  /\ pc' = "idle"
  /\ outcome' = o
  /\ out' = <<>>
  /\ UNCHANGED <<committed, tmpfile>>

\* a merge script starts
StartOf(s) ==
  /\ pc = "idle"
  /\ runsLeft > 0
  /\ runsLeft' = runsLeft - 1
  /\ script' = s
  /\ pre' = committed
  /\ preBatch' = batch
  /\ UNCHANGED <<batch, master>>
  /\ UNCHANGED crawlVars

\* a step of a running script that goes on running
StepTo(p) ==
  /\ pc' = p
  /\ UNCHANGED <<script, outcome, pre, preBatch, out, runsLeft, master>>
  /\ UNCHANGED crawlVars

\* the last step of a script that wrote the committed file
EndWritten ==
  /\ pc' = "idle"
  /\ outcome' = "written"
  /\ UNCHANGED <<script, pre, preBatch, out, runsLeft, master>>
  /\ UNCHANGED crawlVars

\* -------------------------------------------- scripts/update_csv.py
\* merge_dedupe, lines 108-113: to_datetime on both date columns
ParseDates(rs) ==
  [i \in 1..Len(rs) |-> [rs[i] EXCEPT !.pd = ToDatetimePd(@), !.sa = ToDatetimeSa(@)]]

\* merge_dedupe, lines 105-136: concat, to_datetime, sort by scraped_at,
\* drop_duplicates(keep="last"), presentation sort
UpdateCsvCombined(old, new) ==
  LET combined == ParseDates(old \o new)
      sorted == StableSort(combined, "scraped_at asc")
      deduped == DropDuplicatesKeepLast(sorted)
  IN StableSort(deduped, "published_date, scraped_at desc")

\* merge_dedupe, lines 138-146: the shrink guard
UpdateCsvShrinks(oldf, combined) ==
  /\ oldf.st = "table"
  /\ oldf.rows # <<>>
  /\ NUnique(combined) < NUnique(oldf.rows)

\* merge_dedupe up to the guard (lines 82-146)
merge_dedupe_begin ==
  /\ UNCHANGED extVars
  /\ StartOf("update_csv")
  /\ IF batch.st = "missing" THEN EndWith("returned")
     ELSE IF batch.st = "zero" \/ committed.st = "zero" THEN EndWith("error")
     ELSE LET combined == UpdateCsvCombined(committed.rows, batch.rows)
          IN IF UpdateCsvShrinks(committed, combined) THEN EndWith("guard")
             ELSE /\ pc' = "tmp"
                  /\ out' = combined
                  /\ outcome' = "running"
                  /\ UNCHANGED <<committed, tmpfile>>

\* variant of merge_dedupe_write_tmp: the batch alone goes to the temp file
merge_dedupe_write_tmp_BatchOnly ==
  /\ UNCHANGED extVars
  /\ pc = "tmp"
  /\ script = "update_csv"
  /\ tmpfile' = Table(ParseDates(preBatch.rows))
  /\ StepTo("rename")
  /\ UNCHANGED <<committed, batch>>

\* merge_dedupe, lines 149-150: combined.to_csv(tmp_master)
merge_dedupe_write_tmp ==
  /\ UNCHANGED extVars
  /\ pc = "tmp"
  /\ script = "update_csv"
  /\ tmpfile' = Table(out)
  /\ StepTo("rename")
  /\ UNCHANGED <<committed, batch>>

\* merge_dedupe, line 151: tmp_master.replace(MASTER_CSV)
merge_dedupe_replace ==
  /\ UNCHANGED extVars
  /\ pc = "rename"
  /\ script = "update_csv"
  /\ committed' = tmpfile
  /\ tmpfile' = Missing
  /\ EndWritten
  /\ UNCHANGED batch

\* ------------------------------------------------- characters and texts
\* A text is a sequence of characters and a character is a one-character
\* string.
LowerCase == <<"a", "b", "c", "d", "e", "f", "g", "h", "i", "j", "k", "l", "m",
               "n", "o", "p", "q", "r", "s", "t", "u", "v", "w", "x", "y", "z">>
UpperCase == <<"A", "B", "C", "D", "E", "F", "G", "H", "I", "J", "K", "L", "M",
               "N", "O", "P", "Q", "R", "S", "T", "U", "V", "W", "X", "Y", "Z">>
Digits == {"0", "1", "2", "3", "4", "5", "6", "7", "8", "9"}
\* str.islower() / str.isupper() of one character
islower(c) == \E i \in 1..26 : LowerCase[i] = c
isupper(c) == \E i \in 1..26 : UpperCase[i] = c
\* [A-Za-z]
IsLetter(c) == islower(c) \/ isupper(c)
\* \d: the subscript two is no decimal digit
IsDigit(c) == c \in Digits
UpperChar(c) == IF islower(c) THEN UpperCase[CHOOSE i \in 1..26 : LowerCase[i] = c] ELSE c
LowerChar(c) == IF isupper(c) THEN LowerCase[CHOOSE i \in 1..26 : UpperCase[i] = c] ELSE c
\* str.upper() / str.lower()
Upper(s) == [i \in 1..Len(s) |-> UpperChar(s[i])]
Lower(s) == [i \in 1..Len(s) |-> LowerChar(s[i])]

\* str.strip()
strip(s) ==
  LET solid == {i \in 1..Len(s) : s[i] # " "}
  IN IF solid = {} THEN <<>>
     ELSE SubSeq(s, CHOOSE i \in solid : \A j \in solid : i <= j,
                    CHOOSE i \in solid : \A j \in solid : j <= i)

\* -------------------------------------------- scripts/merge_jpt_csv.py
\* _normalize: keep only the rows with a url
Normalize(rs) ==
  SelectIdx(rs, {i \in 1..Len(rs) : rs[i].url # ""})

\* the header variants _normalize maps to "url", in the order it tries them
UrlCandidates ==
  <<UrlHeader, <<"l", "i", "n", "k">>, <<"p", "e", "r", "m", "a", "l", "i", "n", "k">>,
    <<"h", "r", "e", "f">>>>
\* the header of the column that follows the identity column
NextHeader == <<"t", "i", "t", "l", "e">>
NoFrame == [idcol |-> <<>>, rows |-> <<>>]

\* _read_strict: the frame pandas parses from the file with the separator
\* sep.  With the file's own separator the identity column comes out under
\* its header; with the other one every line comes out as one cell of one
\* column named by the whole header line (cells hold neither separator).
ReadStrict(f, form, sep) ==
  IF f.st = "missing" THEN NoFrame
  ELSE IF sep = form.sep THEN [idcol |-> form.head, rows |-> f.rows]
  ELSE [idcol |-> form.head \o <<form.sep>> \o NextHeader,
        rows |-> [i \in 1..Len(f.rows) |-> [f.rows[i] EXCEPT !.url = ""]]]

\* _read_master_or_new: the comma parse when it has rows and a column named
\* exactly "url", the tab parse otherwise
ReadMasterOrNew(f, form) ==
  LET df == ReadStrict(f, form, ",")
      df2 == ReadStrict(f, form, "\t")
  IN IF df.rows # <<>> /\ strip(df.idcol) = UrlHeader
     THEN [df EXCEPT !.idcol = strip(@)]
     ELSE IF df2.rows # <<>> THEN [df2 EXCEPT !.idcol = strip(@)] ELSE df2

\* _normalize: rename the first header variant found (headers compared in
\* lower case) to "url", add a column "url" of empty cells when there is
\* none, keep the rows with a url
NormalizeFrame(df) ==
  LET col == strip(df.idcol)
      found == col = UrlHeader \/ \E k \in 1..Len(UrlCandidates) : Lower(col) = UrlCandidates[k]
  IN IF df.rows = <<>> THEN <<>>
     ELSE Normalize([i \in 1..Len(df.rows) |->
                       [df.rows[i] EXCEPT !.url = IF found THEN @ ELSE ""]])

\* variant: the guard checks the number of unique urls only
MasterGuardRaises_FloorOnly(old) ==
  old = <<>> \/ NUnique(old) < MIN_UNIQUE_URLS

\* _master_guard: TRUE when the guard raises
MasterGuardRaises(old) ==
  LET dts == {ToDatetimePd(old[i].pd) : i \in 1..Len(old)} \ {NaT}
  IN \/ old = <<>>
     \/ NUnique(old) < MIN_UNIQUE_URLS
     \/ (dts # {} /\ \E m \in dts : (\A d \in dts : m <= d) /\ m > MAX_ALLOWED_MIN_DATE)

\* variant: main concatenates without dropping the duplicates
MergeJptDeduped_Concat(old, new) == old \o new

\* main, lines 137-142: concat, sort by (url, _scraped), drop_duplicates
MergeJptDeduped(old, new) ==
  DropDuplicatesKeepLast(StableSort(old \o new, "url, _scraped asc"))

\* variant: the master guard runs after combined.to_csv(OUT)
MergeJptCsv_main_begin_GuardAfterWrite ==
  /\ UNCHANGED extVars
  /\ StartOf("merge_jpt_csv")
  /\ tmpfile' = tmpfile
  /\ IF committed.st = "zero" \/ batch.st = "zero"
     THEN pc' = "idle" /\ outcome' = "error" /\ out' = <<>> /\ committed' = committed
     ELSE LET old_raw == ReadMasterOrNew(committed, formats.master).rows
              old == NormalizeFrame(ReadMasterOrNew(committed, formats.master))
              new == NormalizeFrame(ReadMasterOrNew(batch, formats.new))
          IN IF old = <<>> /\ new = <<>>
             THEN pc' = "idle" /\ outcome' = "returned" /\ out' = <<>>
                  /\ committed' = committed
             ELSE IF committed.st = "table" /\ old_raw # <<>> /\ MasterGuardRaises(old)
                  THEN pc' = "idle" /\ outcome' = "guard" /\ out' = <<>>
                       /\ committed' = Table(MergeJptDeduped(old, new))
             ELSE /\ \E o \in UnstableSorts(MergeJptDeduped(old, new), "_pub desc") : out' = o
                  /\ pc' = "open"
                  /\ outcome' = "running"
                  /\ committed' = committed

\* main, lines 122-146: reads, guards, dedupe and the final sort
MergeJptCsv_main_begin ==
  /\ UNCHANGED extVars
  /\ StartOf("merge_jpt_csv")
  /\ IF committed.st = "zero" \/ batch.st = "zero" THEN EndWith("error")
     ELSE LET old_raw == ReadMasterOrNew(committed, formats.master).rows
              old == NormalizeFrame(ReadMasterOrNew(committed, formats.master))
              new == NormalizeFrame(ReadMasterOrNew(batch, formats.new))
          IN IF old = <<>> /\ new = <<>> THEN EndWith("returned")
             ELSE IF committed.st = "table" /\ old_raw # <<>> /\ MasterGuardRaises(old)
                  THEN EndWith("guard")
             ELSE /\ \E o \in UnstableSorts(MergeJptDeduped(old, new), "_pub desc") : out' = o
                  /\ pc' = "open"
                  /\ outcome' = "running"
                  /\ UNCHANGED <<committed, tmpfile>>

\* DataFrame.to_csv(path) on the committed path itself: open(path, "w")
\* truncates the file ...
InPlaceOpen ==
  /\ UNCHANGED extVars
  /\ pc = "open"
  /\ committed' = ZeroByte
  /\ StepTo("rows")
  /\ UNCHANGED <<batch, tmpfile>>

\* ... and the header and the rows follow, one write at a time
InPlaceWriteRow ==
  /\ UNCHANGED extVars
  /\ pc = "rows"
  /\ Len(committed.rows) < Len(out)
  /\ committed' = Table(SubSeq(out, 1, Len(committed.rows) + 1))
  /\ StepTo("rows")
  /\ UNCHANGED <<batch, tmpfile>>

\* main, line 149 returns: the file is closed
MergeJptCsv_main_end ==
  /\ UNCHANGED extVars
  /\ pc = "rows"
  /\ script = "merge_jpt_csv"
  /\ Len(committed.rows) = Len(out)
  /\ committed' = Table(out)
  /\ EndWritten
  /\ UNCHANGED <<batch, tmpfile>>

\* ---------------------------------- jpt_scraper/scripts/update_jpt_csv.py
\* main, lines 52-53: url.astype(str) turns a missing url into "nan"
UrlAsStr(rs) ==
  [i \in 1..Len(rs) |-> [rs[i] EXCEPT !.url = IF @ = "" THEN "nan" ELSE @]]

\* main, lines 58-60: to_datetime, then published_date.dt.date.astype(str)
DateAsStr(rs) ==
  [i \in 1..Len(rs) |->
     [rs[i] EXCEPT !.pd = IF ToDatetimePd(@) = NaT THEN NaTText ELSE ToDatetimePd(@)]]

\* main, lines 49-54: concat, drop_duplicates(keep="last")
UpdateJptDeduped(old, new) == DropDuplicatesKeepLast(UrlAsStr(old \o new))

\* main, lines 13-60: read the csv, run the spider with -O jpt_new.csv, read
\* the export, dedupe and sort.  The export replaces whatever jpt_new.csv
\* held, so the batch of the state stands for what the spider exports.
UpdateJptCsv_main_begin ==
  /\ UNCHANGED extVars
  /\ StartOf("update_jpt_csv")
  /\ IF committed.st \in {"missing", "zero"} THEN EndWith("error")
     ELSE IF batch.st \in {"missing", "zero"} THEN EndWith("error")
     ELSE /\ \E o \in UnstableSorts(UpdateJptDeduped(committed.rows, batch.rows),
                                    "_pub desc") : out' = DateAsStr(o)
          /\ pc' = "open"
          /\ outcome' = "running"
          /\ UNCHANGED <<committed, tmpfile>>

\* main, lines 62-71: the file is closed, TMP_PATH is unlinked
UpdateJptCsv_main_end ==
  /\ UNCHANGED extVars
  /\ pc = "rows"
  /\ script = "update_jpt_csv"
  /\ Len(committed.rows) = Len(out)
  /\ committed' = Table(out)
  /\ batch' = Missing
  /\ EndWritten
  /\ UNCHANGED tmpfile

\* the process dies between two steps of a write
Crash ==
  /\ UNCHANGED extVars
  /\ pc \in {"tmp", "rename", "open", "rows"}
  /\ pc' = "idle"
  /\ outcome' = "crashed"
  /\ UNCHANGED <<script, pre, preBatch, out, runsLeft>>
  /\ UNCHANGED fileVars
  /\ UNCHANGED crawlVars

\* --------------------------- jpt_scraper/spiders: jpt_latest, worldoil_news
\* A stub of a listing is [url, date]: url "" is a promo without a title
\* link, date is the by-line text, 0 when it holds no 'Month D, YYYY'.
UrlNames == <<"a", "b", "c", "d", "e">>
StubsAt(i) == {[url |-> "", date |-> 0]}
                \cup {[url |-> UrlNames[i], date |-> d] : d \in 0..MaxDate}
Sites == UNION {{s \in [1..n -> UNION {StubsAt(i) : i \in 1..n}] :
                   \A i \in 1..n : s[i] \in StubsAt(i)} : n \in 0..MaxArticles}

Min2(a, b) == IF a < b THEN a ELSE b
\* the listing shows PageSize stubs a page; the start url always answers
NumPages(s) == IF Len(s) = 0 THEN 1 ELSE (Len(s) + PageSize - 1) \div PageSize
PageIdx(s, p) == ((p - 1) * PageSize + 1)..Min2(p * PageSize, Len(s))
PageOfPos(i) == (i + PageSize - 1) \div PageSize

\* parse_date_from_text: the ISO date of the first 'Month D, YYYY', or None
parse_date_from_text(t) == IF t \in 1..MaxDate THEN t ELSE None

\* read_last_date_from_csv (jpt_latest): max of the non-empty published_date
\* strings of the file, None when the file is absent or holds none
read_last_date_from_csv(f) ==
  LET dates == {f.rows[i].pd : i \in 1..Len(f.rows)} \ {0}
  IN IF f.st # "table" \/ dates = {} THEN None ELSE MaxOf(dates)

\* read_last_date_from_csv (worldoil_news): only rows of source "worldoil"
read_last_date_from_csv_source(f, src) ==
  LET dates == {f.rows[i].pd : i \in {j \in 1..Len(f.rows) : f.rows[j].source = src}} \ {0}
  IN IF f.st # "table" \/ dates = {} THEN None ELSE MaxOf(dates)

\* variant: the `if not published_date: continue` of parse is missing
Usable_NoDateCheck(st) == st.url # ""

\* parse: a stub gets past the two `continue`s (it has an href and a date)
Usable(st) == st.url # "" /\ parse_date_from_text(st.date) # None

\* variant: the hard stop compares with < instead of <=
HardStop_Strict(st, D) == D # None /\ parse_date_from_text(st.date) < D

\* parse: the hard-stop test, `self.last_date and published_date <= self.last_date`
HardStop(st, D) == D # None /\ parse_date_from_text(st.date) <= D

\* parse: position of the stub of page p at which the loop returns, 0 if none
StopIndex(s, p, D) ==
  LET hits == {i \in PageIdx(s, p) : Usable(s[i]) /\ HardStop(s[i], D)}
  IN IF hits = {} THEN 0 ELSE CHOOSE i \in hits : \A j \in hits : i <= j

\* variant: `continue` where the code has `return`: later stubs are still looked at
ParseYields_Continue(s, p, D) ==
  {i \in PageIdx(s, p) : Usable(s[i]) /\ ~HardStop(s[i], D)}

\* parse: positions of the stubs of page p a detail request is yielded for
ParseYields(s, p, D) ==
  {i \in PageIdx(s, p) : Usable(s[i]) /\ (StopIndex(s, p, D) = 0 \/ i < StopIndex(s, p, D))}

\* variant: the budget test is `pages_seen <= max_pages`
ParseFollowsNext_OffByOne(s, p, D, mp, seen) ==
  /\ StopIndex(s, p, D) = 0
  /\ (mp = 0 \/ seen <= mp)
  /\ p < NumPages(s)

\* parse: the next listing page is requested (the loop did not return, the
\* budget allows it, the page has a next link); seen is pages_seen after +1
ParseFollowsNext(s, p, D, mp, seen) ==
  /\ StopIndex(s, p, D) = 0
  /\ (mp = 0 \/ seen < mp)
  /\ p < NumPages(s)

\* " ".join(text.split()): whitespace runs collapsed, ends trimmed
JoinSplit(x) == CASE x = " " -> "" [] x = " T " -> "T" [] x = " Drilling" -> "Drilling"
                  [] OTHER -> x

\* clean_list: normalise each entry, drop the empty ones and the repeats
clean_list(xs) ==
  LET ys == [i \in 1..Len(xs) |-> JoinSplit(xs[i])]
  IN SelectIdx(ys, {i \in 1..Len(ys) : ys[i] # "" /\ \A j \in 1..(i - 1) : ys[j] # ys[i]})

\* TOPIC_WHITELIST of worldoil_news (lower-cased section names)
TOPIC_WHITELIST == {"onshore", "offshore", "digital transformation", "energy transition",
                    "industry & analysis"}
\* str.lower on the label texts of this model
LabelKey(x) == CASE x = "Drilling" -> "drilling" [] OTHER -> x
\* split_topics_tags of worldoil_news
split_topics_tags(labels) ==
  LET cl == clean_list(labels)
  IN [topics |-> clean_list(SelectIdx(cl, {i \in 1..Len(cl) : LabelKey(cl[i]) \in TOPIC_WHITELIST})),
      tags |-> clean_list(SelectIdx(cl, {i \in 1..Len(cl) : LabelKey(cl[i]) \notin TOPIC_WHITELIST}))]

\* parse_article of jpt_latest, lines 164-188: primary selectors, then the
\* fallback where the primary found nothing, then clean_list
JptTopics(pg) == clean_list(IF pg.ptopics = <<>> THEN pg.ftopics ELSE pg.ptopics)
JptTags(pg) == clean_list(IF pg.ptags = <<>> THEN pg.ftags ELSE pg.ptags)

\* the topics and tags a spider's parse_article puts in the record; the
\* listing rows of worldoil_news carry no labels in this model
ItemTopics(sp, pg) ==
  IF sp = "jpt_latest" THEN JptTopics(pg)
  ELSE clean_list(split_topics_tags(pg.labels).topics)
ItemTags(sp, pg) ==
  IF sp = "jpt_latest" THEN JptTags(pg)
  ELSE clean_list(split_topics_tags(pg.labels).tags)

Request(i) == [pos |-> i, url |-> site[i].url, date |-> parse_date_from_text(site[i].date),
               title |-> JoinSplit(titles[site[i].url])]

\* variant: the hard stop cancels the detail requests that are still queued
ParseStep_Cancelling(sp, p) ==
  /\ UNCHANGED extVars
  /\ pc = "crawl"
  /\ spider = sp
  /\ p \in listingQ
  /\ pages_seen' = pages_seen + 1
  /\ detailQ' = IF StopIndex(site, p, last_date) # 0 THEN {}
                ELSE detailQ \cup {Request(i) : i \in ParseYields(site, p, last_date)}
  /\ scheduled' = scheduled \cup ParseYields(site, p, last_date)
  /\ stopAt' = IF StopIndex(site, p, last_date) # 0
               THEN StopIndex(site, p, last_date) ELSE stopAt
  /\ LET more == ParseFollowsNext(site, p, last_date, max_pages, pages_seen + 1)
     IN /\ listingQ' = (listingQ \ {p}) \cup (IF more THEN {p + 1} ELSE {})
        /\ listed' = listed \cup (IF more THEN {p + 1} ELSE {})
  /\ UNCHANGED <<spider, site, max_pages, last_date, items, now>>
  /\ UNCHANGED fileVars
  /\ UNCHANGED runVars

\* parse, the whole callback on the response of listing page p
ParseStep(sp, p) ==
  /\ UNCHANGED extVars
  /\ pc = "crawl"
  /\ spider = sp
  /\ p \in listingQ
  /\ pages_seen' = pages_seen + 1
  /\ detailQ' = detailQ \cup {Request(i) : i \in ParseYields(site, p, last_date)}
  /\ scheduled' = scheduled \cup ParseYields(site, p, last_date)
  /\ stopAt' = IF StopIndex(site, p, last_date) # 0
               THEN StopIndex(site, p, last_date) ELSE stopAt
  /\ LET more == ParseFollowsNext(site, p, last_date, max_pages, pages_seen + 1)
     IN /\ listingQ' = (listingQ \ {p}) \cup (IF more THEN {p + 1} ELSE {})
        /\ listed' = listed \cup (IF more THEN {p + 1} ELSE {})
  /\ UNCHANGED <<spider, site, max_pages, last_date, items, now>>
  /\ UNCHANGED fileVars
  /\ UNCHANGED runVars

\* variant: parse_article yields nothing when it found neither topics nor tags
ParseArticleStep_DropUnlabelled(sp, r, src) ==
  /\ UNCHANGED extVars
  /\ pc = "crawl"
  /\ spider = sp
  /\ r \in detailQ
  /\ detailQ' = detailQ \ {r}
  /\ items' = IF ItemTopics(sp, detail_pages[r.url]) = <<>> /\ ItemTags(sp, detail_pages[r.url]) = <<>>
               THEN items
               ELSE Append(items, [url |-> r.url, pd |-> r.date, sa |-> now, source |-> src,
                                   title |-> r.title,
                                   topics |-> ItemTopics(sp, detail_pages[r.url]),
                                   tags |-> ItemTags(sp, detail_pages[r.url])])
  /\ UNCHANGED <<spider, site, max_pages, last_date, pages_seen, listingQ,
                 scheduled, listed, stopAt, now>>
  /\ UNCHANGED fileVars
  /\ UNCHANGED runVars

\* parse_article, the whole callback on the response of detail request r
ParseArticleStep(sp, r, src) ==
  /\ UNCHANGED extVars
  /\ pc = "crawl"
  /\ spider = sp
  /\ r \in detailQ
  /\ detailQ' = detailQ \ {r}
  /\ items' = Append(items, [url |-> r.url, pd |-> r.date, sa |-> now, source |-> src,
                             title |-> r.title,
                             topics |-> ItemTopics(sp, detail_pages[r.url]),
                             tags |-> ItemTags(sp, detail_pages[r.url])])
  /\ UNCHANGED <<spider, site, max_pages, last_date, pages_seen, listingQ,
                 scheduled, listed, stopAt, now>>
  /\ UNCHANGED fileVars
  /\ UNCHANGED runVars

JptLatest_parse == \E p \in listingQ : ParseStep("jpt_latest", p)
JptLatest_parse_article == \E r \in detailQ : ParseArticleStep("jpt_latest", r, "")
WorldOilNews_parse == \E p \in listingQ : ParseStep("worldoil_news", p)
WorldOilNews_parse_article ==
  \E r \in detailQ : ParseArticleStep("worldoil_news", r, "worldoil")

\* settings.py: RETRY_ENABLED = True, RETRY_TIMES = 3
RETRY_TIMES == 3

\* variant: the retry middleware allows one retry more than RETRY_TIMES
download_failed_OneMore ==
  /\ pc = "crawl"
  /\ \E r \in detailQ :
       IF retry_times[r.pos] < RETRY_TIMES + 1
       THEN /\ retry_times' = [retry_times EXCEPT ![r.pos] = @ + 1]
            /\ UNCHANGED <<detailQ, dropped>>
       ELSE /\ detailQ' = detailQ \ {r}
            /\ dropped' = dropped \cup {r.pos}
            /\ UNCHANGED retry_times
  /\ UNCHANGED <<spider, site, max_pages, last_date, pages_seen, listingQ, items,
                 scheduled, listed, stopAt, now>>
  /\ UNCHANGED <<sections, seen_urls, titles, detail_pages, appVars, formats>>
  /\ UNCHANGED fileVars
  /\ UNCHANGED runVars

\* the download of a detail request fails (timeout, connection error, 5xx):
\* Scrapy's retry middleware, configured by settings.py, schedules the
\* request again while it has been retried fewer than RETRY_TIMES times and
\* gives it up otherwise; no callback of the spider runs
download_failed ==
  /\ pc = "crawl"
  /\ \E r \in detailQ :
       IF retry_times[r.pos] < RETRY_TIMES
       THEN /\ retry_times' = [retry_times EXCEPT ![r.pos] = @ + 1]
            /\ UNCHANGED <<detailQ, dropped>>
       ELSE /\ detailQ' = detailQ \ {r}
            /\ dropped' = dropped \cup {r.pos}
            /\ UNCHANGED retry_times
  /\ UNCHANGED <<spider, site, max_pages, last_date, pages_seen, listingQ, items,
                 scheduled, listed, stopAt, now>>
  /\ UNCHANGED <<sections, seen_urls, titles, detail_pages, appVars, formats>>
  /\ UNCHANGED fileVars
  /\ UNCHANGED runVars

\* the crawl runs dry and `scrapy crawl -O <batch>` stores the feed; with no
\* item the CSV exporter has written nothing, and Scrapy leaves no file or an
\* empty one (FEED_STORE_EMPTY)
spider_closed ==
  /\ UNCHANGED extVars
  /\ pc = "crawl"
  /\ listingQ = {}
  /\ detailQ = {}
  /\ IF items = <<>> THEN batch' \in {Missing, ZeroByte} ELSE batch' = Table(items)
  /\ pc' = "scraped"
  /\ UNCHANGED <<committed, tmpfile, master>>
  /\ UNCHANGED <<script, outcome, pre, preBatch, out, runsLeft>>
  /\ UNCHANGED crawlVars

\* ------------------------------------- jpt_scraper/spiders: worldoil_latest
\* START_URLS: the section listings the crawl starts from (seven in the
\* source, scaled to two)
NumSections == 2

\* the stubs a section listing may show: two articles, one article without a
\* date text, one news-row without a title link
LatestStubs == {[url |-> "a", date |-> 1], [url |-> "b", date |-> 1],
                [url |-> "c", date |-> 0], [url |-> "", date |-> 1]}
\* the first section lists up to MaxSecLen stubs, every other one at most one
LatestSections ==
  {ss \in [1..NumSections -> SeqsUpTo(LatestStubs, MaxSecLen)] :
     \A k \in 2..NumSections : Len(ss[k]) <= 1}

\* parse_date (worldoil_latest): ISO date of the first 'Month D, YYYY', or None
parse_date(t) == IF t \in 1..MaxDate THEN t ELSE None

\* parse: the news-rows of page q.page of section q.sec that get past
\* `if not href` and `if url in self.seen_urls` (the loop adds each url it
\* lets through to seen_urls at once)
LatestFresh(q) ==
  LET s == sections[q.sec]
  IN {i \in PageIdx(s, q.page) :
        /\ s[i].url # ""
        /\ s[i].url \notin seen_urls
        /\ \A j \in PageIdx(s, q.page) : j < i => s[j].url # s[i].url}

\* parse: the news-rows a detail request is yielded for
LatestYields(q) ==
  {i \in LatestFresh(q) : parse_date(sections[q.sec][i].date) # None}

LatestRequest(q, i) ==
  [pos |-> <<q.sec, i>>, url |-> sections[q.sec][i].url,
   date |-> parse_date(sections[q.sec][i].date),
   title |-> JoinSplit(titles[sections[q.sec][i].url])]

\* parse, the whole callback on the response of listing request q
WorldOilLatest_parse ==
  /\ pc = "crawl"
  /\ spider = "worldoil_latest"
  /\ \E q \in listingQ :
       /\ pages_seen' = pages_seen + 1
       /\ seen_urls' = seen_urls \cup {sections[q.sec][i].url : i \in LatestFresh(q)}
       /\ detailQ' = detailQ \cup {LatestRequest(q, i) : i \in LatestYields(q)}
       /\ scheduled' = scheduled \cup {<<q.sec, i>> : i \in LatestYields(q)}
       /\ LET more == /\ (max_pages = 0 \/ pages_seen + 1 < max_pages)
                      /\ q.page < NumPages(sections[q.sec])
              next == [sec |-> q.sec, page |-> q.page + 1]
          IN /\ listingQ' = (listingQ \ {q}) \cup (IF more THEN {next} ELSE {})
             /\ listed' = listed \cup (IF more THEN {next} ELSE {})
  /\ UNCHANGED <<spider, site, max_pages, last_date, items, stopAt, now>>
  /\ UNCHANGED <<sections, titles, detail_pages, retry_times, dropped, appVars, formats>>
  /\ UNCHANGED fileVars
  /\ UNCHANGED runVars

\* parse_article, the whole callback on the response of a detail request
WorldOilLatest_parse_article ==
  /\ pc = "crawl"
  /\ spider = "worldoil_latest"
  /\ \E r \in detailQ :
       /\ detailQ' = detailQ \ {r}
       /\ items' = Append(items, [url |-> r.url, pd |-> r.date, sa |-> now,
                                  source |-> "worldoil", title |-> r.title,
                                  topics |-> <<>>, tags |-> <<>>])
  /\ UNCHANGED <<spider, site, max_pages, last_date, pages_seen, listingQ,
                 scheduled, listed, stopAt, now>>
  /\ UNCHANGED extVars
  /\ UNCHANGED fileVars
  /\ UNCHANGED runVars

\* ------------------------------------------------- scripts/scrape_new.py
\* a new spider object: __init__ of jpt_latest / worldoil_news
SpiderInit(sp, mp, D) ==
  /\ spider' = sp
  /\ max_pages' = mp
  /\ last_date' = D
  /\ pages_seen' = 0
  /\ listingQ' = {1}
  /\ listed' = {1}
  /\ detailQ' = {}
  /\ items' = <<>>
  /\ scheduled' = {}
  /\ stopAt' = 0
  /\ now' = now + 1
  /\ UNCHANGED site

\* main: unlink jpt_daily.csv, then `scrapy crawl jpt_latest -a max_pages=..
\* -a stop_at_last_date=1 -a csv_path=<jpt.csv> -O jpt_daily.csv`
scrape_new_main ==
  /\ UNCHANGED extVars
  /\ pc = "idle"
  /\ spider = "jpt_latest"
  /\ runsLeft > 0
  /\ runsLeft' = runsLeft - 1
  /\ batch' = Missing
  /\ \E mp \in 1..MaxBudget : SpiderInit("jpt_latest", mp, read_last_date_from_csv(committed))
  /\ pc' = "crawl"
  /\ UNCHANGED <<committed, tmpfile, master, script, outcome, pre, preBatch, out>>

\* ---------------------------------------- scripts/scrape_worldoil_daily.py
\* main: unlink worldoil_daily.csv, then `scrapy crawl worldoil_news .. -a
\* stop_at_last_date=1 -a csv_path=<worldoil_full.csv> -O worldoil_daily.csv`
scrape_worldoil_daily_main ==
  /\ UNCHANGED extVars
  /\ pc = "idle"
  /\ spider = "worldoil_news"
  /\ runsLeft > 0
  /\ runsLeft' = runsLeft - 1
  /\ batch' = Missing
  /\ \E mp \in 1..MaxBudget :
       SpiderInit("worldoil_news", mp, read_last_date_from_csv_source(master, "worldoil"))
  /\ pc' = "crawl"
  /\ UNCHANGED <<committed, tmpfile, master, script, outcome, pre, preBatch, out>>

\* the site publishes an article: it heads the listing, dated no earlier
\* than the article below it
Publish ==
  /\ UNCHANGED extVars
  /\ pc = "idle"
  /\ Len(site) < MaxArticles
  /\ \E d \in 1..MaxDate :
       /\ (site # <<>> => d >= site[1].date)
       /\ site' = <<[url |-> UrlNames[Len(site) + 1], date |-> d]>> \o site
  /\ UNCHANGED <<spider, max_pages, last_date, pages_seen, listingQ, detailQ,
                 items, scheduled, listed, stopAt, now>>
  /\ UNCHANGED fileVars
  /\ UNCHANGED runVars

\* a merge script of a daily cycle starts on the batch the crawl left
StartAfterScrape(s, sp) ==
  /\ pc = "scraped"
  /\ spider = sp
  /\ script' = s
  /\ pre' = committed
  /\ preBatch' = batch
  /\ UNCHANGED <<batch, master, runsLeft>>
  /\ UNCHANGED crawlVars

\* -------------------------------------------- scripts/merge_three_way.py
\* main, lines 41-59: concat MASTER then DAILY, sort by scraped_at,
\* drop_duplicates(keep="last"), final ordering
MergeThreeWayMerged(ms, ds) ==
  LET combined == [i \in 1..Len(ms \o ds) |->
                     [(ms \o ds)[i] EXCEPT !.sa = ToDatetimeSa(@)]]
      merged == DropDuplicatesKeepLast(StableSort(combined, "scraped_at asc"))
      dated == [i \in 1..Len(merged) |-> [merged[i] EXCEPT !.pd = ToDatetimePd(@)]]
  IN StableSort(dated, "published_date, scraped_at desc")

\* main, lines 30-59
MergeThreeWay_main_begin ==
  /\ UNCHANGED extVars
  /\ StartAfterScrape("merge_three_way", "jpt_latest")
  /\ IF master.st = "zero" \/ batch.st = "zero" THEN EndWith("error")
     ELSE IF master.rows = <<>> /\ batch.rows = <<>> THEN EndWith("guard")
     ELSE /\ out' = MergeThreeWayMerged(master.rows, batch.rows)
          /\ pc' = "tmp"
          /\ outcome' = "running"
          /\ UNCHANGED <<committed, tmpfile>>

\* main, lines 62-63: merged.to_csv(tmp)
MergeThreeWay_write_tmp ==
  /\ UNCHANGED extVars
  /\ pc = "tmp"
  /\ script = "merge_three_way"
  /\ tmpfile' = Table(out)
  /\ StepTo("rename")
  /\ UNCHANGED <<committed, batch>>

\* main, line 64: tmp.replace(MERGED_CSV)
MergeThreeWay_replace ==
  /\ UNCHANGED extVars
  /\ pc = "rename"
  /\ script = "merge_three_way"
  /\ committed' = tmpfile
  /\ tmpfile' = Missing
  /\ EndWritten
  /\ UNCHANGED batch

\* --------------------------------------------- scripts/merge_worldoil.py
\* main, lines 47-73: concat FULL then DAILY, to_datetime, sort by
\* (published_date, scraped_at), drop_duplicates(keep="last"), final ordering
MergeWorldoilMerged(fs, ds) ==
  LET combined == ParseDates(fs \o ds)
      merged == DropDuplicatesKeepLast(StableSort(combined, "published_date, scraped_at asc"))
  IN StableSort(merged, "published_date, scraped_at desc")

\* main, lines 36-73
MergeWorldoil_main_begin ==
  /\ UNCHANGED extVars
  /\ StartAfterScrape("merge_worldoil", "worldoil_news")
  /\ IF master.st = "zero" \/ batch.st = "zero" THEN EndWith("error")
     ELSE IF master.rows = <<>> /\ batch.rows = <<>> THEN EndWith("guard")
     ELSE /\ out' = MergeWorldoilMerged(master.rows, batch.rows)
          /\ pc' = "tmp"
          /\ outcome' = "running"
          /\ UNCHANGED <<committed, tmpfile>>

\* atomic_write_csv, lines 31-32: df.to_csv(tmp)
atomic_write_csv_tmp ==
  /\ UNCHANGED extVars
  /\ pc = "tmp"
  /\ script = "merge_worldoil"
  /\ tmpfile' = Table(out)
  /\ StepTo("rename")
  /\ UNCHANGED <<committed, batch>>

\* atomic_write_csv, line 33: tmp.replace(path)
atomic_write_csv_replace ==
  /\ UNCHANGED extVars
  /\ pc = "rename"
  /\ script = "merge_worldoil"
  /\ committed' = tmpfile
  /\ tmpfile' = Missing
  /\ EndWritten
  /\ UNCHANGED batch

\* ------------------------------------------------------ specifications
NoCrawl ==
  /\ spider = "none"
  /\ site = <<>>
  /\ max_pages = 0
  /\ last_date = None
  /\ pages_seen = 0
  /\ listingQ = {}
  /\ detailQ = {}
  /\ items = <<>>
  /\ scheduled = {}
  /\ listed = {}
  /\ stopAt = 0
  /\ now = 1

\* one run of one merge script on any committed file and any batch
InitMerge ==
  /\ NoExt
  /\ committed \in OldFiles
  /\ batch \in NewFiles
  /\ tmpfile = Missing
  /\ master = Missing
  /\ script = "none"
  /\ pc = "idle"
  /\ outcome = "none"
  /\ pre = committed
  /\ preBatch = batch
  /\ out = <<>>
  /\ runsLeft = 1
  /\ NoCrawl

NextMerge ==
  \/ merge_dedupe_begin
  \/ merge_dedupe_write_tmp
  \/ merge_dedupe_replace
  \/ MergeJptCsv_main_begin
  \/ InPlaceOpen
  \/ InPlaceWriteRow
  \/ MergeJptCsv_main_end
  \/ UpdateJptCsv_main_begin
  \/ UpdateJptCsv_main_end
  \/ Crash

SpecMerge == InitMerge /\ [][NextMerge]_vars

\* ------------------------------------------------------------- properties
UniqueUrls(rs) == \A i, j \in 1..Len(rs) : i # j => rs[i].url # rs[j].url
InputRows == pre.rows \o preBatch.rows
Ended == outcome \in {"written", "guard", "returned", "error"}

\* C2: the committed file a merge has written holds at most one row per url,
\* whatever the committed file and the batch held (duplicates included).
C2_WrittenUrlsUnique ==
  outcome = "written" => UniqueUrls(committed.rows)

\* C2 witness: a merge has written although its inputs repeated a url, inside
\* the committed input and across the two inputs.
C2_Witness ==
  /\ outcome = "written"
  /\ ~UniqueUrls(pre.rows)
  /\ UrlsOf(pre.rows) \cap UrlsOf(preBatch.rows) # {}

\* C3 (as the specification states it): after a merge has written, every url of the inputs has
\* exactly one row in the committed file and that row carries the largest
\* scraped_at of the input rows with the url (empty/unparseable = oldest).
C3_NewestScrapedAtSurvives ==
  outcome = "written" =>
    \A u \in UrlsOf(InputRows) \ {""} :
      /\ Cardinality({i \in 1..Len(committed.rows) : committed.rows[i].url = u}) = 1
      /\ \A i \in 1..Len(committed.rows) :
           committed.rows[i].url = u =>
             ToDatetimeSa(committed.rows[i].sa) =
               MaxOf({ToDatetimeSa(InputRows[k].sa) :
                        k \in {j \in 1..Len(InputRows) : InputRows[j].url = u}})

\* C4: a merge that ends without committing (a guard raised, or it returned or
\* failed before the write) leaves the committed file as it found it.
C4_AbortLeavesCommitted ==
  outcome \in {"guard", "returned", "error"} => committed = pre /\ tmpfile = Missing

\* C4 witness: merge_jpt_csv raised in _master_guard on a committed file with
\* rows while the batch had rows to merge.
C4_Witness ==
  /\ outcome = "guard"
  /\ script = "merge_jpt_csv"
  /\ Normalize(pre.rows) # <<>>
  /\ Normalize(preBatch.rows) # <<>>

\* C5 (as the specification states it): while a merge runs, after it crashed and after it ended, a
\* reader of the committed path sees the complete old file or the complete new
\* file.
C5_ReaderSeesOldOrNew ==
  (outcome \in {"running", "crashed", "written"} /\ pre.st = "table" /\ pre.rows # <<>>)
    => (committed = pre \/ committed = Table(out))

\* C6: merge_dedupe never lowers the number of unique urls of the committed
\* file: when it has written, the committed file has at least as many unique
\* urls as before, and when it ended otherwise the committed file is as it
\* was and no temp file is left.
C6_NonShrink ==
  script = "update_csv" =>
    /\ outcome = "written" => NUnique(committed.rows) >= NUnique(pre.rows)
    /\ (Ended /\ outcome # "written") => (committed = pre /\ tmpfile = Missing)

\* C6 witness: merge_dedupe committed a file built from a committed file with
\* urls and a batch that repeats one of them.
C6_Witness ==
  /\ outcome = "written"
  /\ script = "update_csv"
  /\ NUnique(pre.rows) >= 1
  /\ (UrlsOf(pre.rows) \cap UrlsOf(preBatch.rows)) \ {""} # {}

\* C7 (as the specification states it): merge_jpt_csv, run on a committed file that has rows but
\* none with a url, raises and leaves the committed file alone, whatever the
\* batch is.
C7_ZeroRowMasterRaises ==
  (/\ script = "merge_jpt_csv"
   /\ Ended
   /\ pre.st = "table"
   /\ pre.rows # <<>>
   /\ Normalize(pre.rows) = <<>>)
  => (outcome \in {"guard", "error"} /\ committed = pre)

\* one crawl of jpt_latest or worldoil_news over any site, with any page
\* budget and any hard-stop date
InitCrawl ==
  /\ NoExt
  /\ committed = Missing
  /\ batch = Missing
  /\ tmpfile = Missing
  /\ master = Missing
  /\ script = "none"
  /\ pc = "crawl"
  /\ outcome = "none"
  /\ pre = Missing
  /\ preBatch = Missing
  /\ out = <<>>
  /\ runsLeft = 0
  /\ spider \in {"jpt_latest", "worldoil_news"}
  /\ site \in Sites
  /\ max_pages \in 0..MaxBudget
  /\ last_date \in 0..MaxDate
  /\ pages_seen = 0
  /\ listingQ = {1}
  /\ detailQ = {}
  /\ items = <<>>
  /\ scheduled = {}
  /\ listed = {1}
  /\ stopAt = 0
  /\ now = 1

NextCrawl ==
  \/ JptLatest_parse
  \/ JptLatest_parse_article
  \/ WorldOilNews_parse
  \/ WorldOilNews_parse_article
  \/ spider_closed

SpecCrawl == InitCrawl /\ [][NextCrawl]_vars

\* Scrapy's engine keeps taking requests off the scheduler until none is left
SpecCrawlFair ==
  /\ InitCrawl
  /\ [][NextCrawl]_vars
  /\ WF_vars(JptLatest_parse)
  /\ WF_vars(JptLatest_parse_article)
  /\ WF_vars(WorldOilNews_parse)
  /\ WF_vars(WorldOilNews_parse_article)
  /\ WF_vars(spider_closed)

\* daily cycles of one pipeline: jpt (scrape_new, merge_three_way) or
\* worldoil (scrape_worldoil_daily, merge_worldoil), over a site that keeps
\* publishing.  The hand-kept master holds article "a" or does not exist.
InitCycle ==
  /\ NoExt
  /\ spider \in {"jpt_latest", "worldoil_news"}
  /\ master \in {Missing,
                 Table(<<[url |-> "a", pd |-> 1, sa |-> 1,
                          source |-> IF spider = "worldoil_news" THEN "worldoil" ELSE ""]>>)}
  /\ committed = Missing
  /\ batch = Missing
  /\ tmpfile = Missing
  /\ script = "none"
  /\ pc = "idle"
  /\ outcome = "none"
  /\ pre = Missing
  /\ preBatch = Missing
  /\ out = <<>>
  /\ runsLeft = MaxCycles
  /\ site = <<[url |-> "a", date |-> 1]>>
  /\ max_pages = 0
  /\ last_date = None
  /\ pages_seen = 0
  /\ listingQ = {}
  /\ detailQ = {}
  /\ items = <<>>
  /\ scheduled = {}
  /\ listed = {}
  /\ stopAt = 0
  /\ now = 1

NextCycle ==
  \/ Publish
  \/ scrape_new_main
  \/ scrape_worldoil_daily_main
  \/ JptLatest_parse
  \/ JptLatest_parse_article
  \/ WorldOilNews_parse
  \/ WorldOilNews_parse_article
  \/ spider_closed
  \/ MergeThreeWay_main_begin
  \/ MergeThreeWay_write_tmp
  \/ MergeThreeWay_replace
  \/ MergeWorldoil_main_begin
  \/ atomic_write_csv_tmp
  \/ atomic_write_csv_replace
  \/ Crash

SpecCycle == InitCycle /\ [][NextCycle]_vars

\* C1 (as the specification states it): a url of the committed dataset stays in the committed
\* dataset through every later daily cycle.
C1_CommittedUrlsKept ==
  [][UrlsOf(committed.rows) \subseteq UrlsOf(committed'.rows)]_vars

ParsedPages == listed \ listingQ
DateAt(i) == parse_date_from_text(site[i].date)

\* C8: on a parsed listing page, from the first stub whose parsed date is <=
\* the hard-stop date on, no stub of the page got a detail fetch, and the next
\* listing page was never requested.
C8_HardStopEndsPage ==
  \A p \in ParsedPages : \A i \in PageIdx(site, p) :
    (last_date # None /\ Usable(site[i]) /\ DateAt(i) <= last_date)
      => /\ \A j \in PageIdx(site, p) : j >= i => j \notin scheduled
         /\ (p + 1) \notin listed

\* C8 witness: the crawl ended on a page where a stub at or before the
\* hard-stop date is followed by a newer stub, the page has a next link and
\* the page budget is not used up.
C8_Witness ==
  /\ pc = "scraped"
  /\ \E p \in ParsedPages : \E i, j \in PageIdx(site, p) :
       /\ last_date # None /\ Usable(site[i]) /\ DateAt(i) <= last_date
       /\ j > i /\ Usable(site[j]) /\ DateAt(j) > last_date
       /\ p < NumPages(site)
       /\ (max_pages = 0 \/ pages_seen < max_pages)

SortedDates ==
  \A i, j \in 1..Len(site) :
    (i < j /\ Usable(site[i]) /\ Usable(site[j])) => DateAt(i) >= DateAt(j)
FirstKnown ==
  LET known == {i \in 1..Len(site) : Usable(site[i]) /\ DateAt(i) <= last_date}
  IN IF known = {} THEN Len(site) + 1 ELSE CHOOSE i \in known : \A j \in known : i <= j
InBudget(i) == max_pages = 0 \/ PageOfPos(i) <= max_pages

\* C9: with a hard-stop date D and stub dates that do not increase along the
\* listing, no stub dated <= D gets a detail fetch, and when the crawl has
\* ended every stub dated > D that lies before the first stub dated <= D, on a
\* page within the budget, has got one.
C9_HardStopBound ==
  (last_date # None /\ SortedDates) =>
    /\ \A i \in scheduled : DateAt(i) > last_date
    /\ pc = "scraped" =>
         \A i \in 1..Len(site) :
           (Usable(site[i]) /\ DateAt(i) > last_date /\ i < FirstKnown /\ InBudget(i))
             => i \in scheduled

\* C9 witness: a crawl over a sorted listing ended by a hard stop on the
\* second page after scheduling newer stubs.
C9_Witness ==
  /\ pc = "scraped"
  /\ last_date # None
  /\ SortedDates
  /\ stopAt # 0
  /\ PageOfPos(stopAt) = 2
  /\ scheduled # {}

\* C10: after the hard-stop decision nothing more is scheduled; a queued
\* detail request leaves the queue only by emitting its record; and every
\* detail request that is queued when the decision has been taken goes on to
\* emit its record, which the batch file of the crawl then holds.
C10_CooperativeStop ==
  /\ [][stopAt # 0 => (scheduled' = scheduled /\ listed' = listed)]_vars
  /\ [][\A r \in detailQ : r \in detailQ' \/ (\E k \in 1..Len(items') : items'[k].url = r.url)]_vars
  /\ \A i \in 1..MaxArticles :
       (stopAt # 0 /\ \E r \in detailQ : r.pos = i)
         ~> (pc = "scraped" /\ i <= Len(site)
               /\ \E k \in 1..Len(batch.rows) : batch.rows[k].url = site[i].url)

\* C10 witness: the stop decision has been taken on the second page while a
\* detail request scheduled from the first page is still queued.
C10_Witness ==
  /\ stopAt # 0
  /\ \E r \in detailQ : PageOfPos(r.pos) < PageOfPos(stopAt)

\* one crawl of worldoil_latest: Scrapy requests every start url when the
\* spider opens; stop_at_last_date is any of 0, 1
StartRequests == {[sec |-> k, page |-> 1] : k \in 1..NumSections}

InitLatest ==
  /\ committed = Missing
  /\ batch = Missing
  /\ tmpfile = Missing
  /\ master = Missing
  /\ script = "none"
  /\ pc = "crawl"
  /\ outcome = "none"
  /\ pre = Missing
  /\ preBatch = Missing
  /\ out = <<>>
  /\ runsLeft = 0
  /\ spider = "worldoil_latest"
  /\ site = <<>>
  /\ max_pages \in 0..MaxBudget
  /\ last_date = None
  /\ pages_seen = 0
  /\ listingQ = StartRequests
  /\ detailQ = {}
  /\ items = <<>>
  /\ scheduled = {}
  /\ listed = StartRequests
  /\ stopAt = 0
  /\ now = 1
  /\ sections \in LatestSections
  /\ seen_urls = {}
  /\ titles = [u \in AllUrls |-> "T"]
  /\ detail_pages = [u \in AllUrls |-> DefaultPage]
  /\ retry_times = <<>>
  /\ dropped = {}
  /\ NoApp

NextLatest ==
  \/ WorldOilLatest_parse
  \/ WorldOilLatest_parse_article
  \/ spider_closed

SpecLatest == InitLatest /\ [][NextLatest]_vars

\* C11 (as the specification states it): at no point of a crawl are two
\* listing-page requests outstanding together.
C11_OneListingOutstanding ==
  pc = "crawl" => Cardinality(listingQ) <= 1

\* stub i of the listing has a title link and a by-line date / has no date
HasDate(i) == site[i].date \in 1..MaxDate
Dated(i) == site[i].url # "" /\ HasDate(i)
\* no dated stub of page p at or before position i is at or before the
\* hard-stop date
NoStopUpTo(p, i) ==
  \A k \in PageIdx(site, p) :
    (k <= i /\ Dated(k)) => (last_date = None \/ site[k].date > last_date)

\* C12: a stub without a parseable date gets no detail fetch, is in no
\* emitted record and in no batch row (every record carries a parsed date),
\* and is not the stub of the hard stop; on a parsed page it ends nothing:
\* every dated stub of the page that no hard stop precedes has its detail
\* fetch, and the next page is requested when no stub of the page stops, the
\* budget is not used up and a next link exists.
C12_UndatedStubSkipped ==
  /\ \A i \in 1..Len(site) :
       ~HasDate(i) =>
         /\ i \notin scheduled
         /\ stopAt # i
         /\ site[i].url # "" => \A k \in 1..Len(items) : items[k].url # site[i].url
         /\ site[i].url # "" => \A k \in 1..Len(batch.rows) : batch.rows[k].url # site[i].url
  /\ \A k \in 1..Len(items) : items[k].pd \in 1..MaxDate
  /\ \A p \in ParsedPages :
       /\ \A j \in PageIdx(site, p) : (Dated(j) /\ NoStopUpTo(p, j)) => j \in scheduled
       /\ (/\ NoStopUpTo(p, Len(site))
           /\ (max_pages = 0 \/ p < max_pages)
           /\ p < NumPages(site)) => (p + 1) \in listed

\* C12 witness: a finished crawl with a hard-stop date in which a page held a
\* linked stub without a date before a dated one; the dated one was fetched
\* and the next page was requested.
C12_Witness ==
  /\ pc = "scraped"
  /\ last_date # None
  /\ \E p \in ParsedPages : \E i, j \in PageIdx(site, p) :
       /\ i < j
       /\ site[i].url # "" /\ ~HasDate(i)
       /\ Dated(j) /\ j \in scheduled
       /\ (p + 1) \in listed

\* C13: with max_pages = N > 0 a crawl of jpt_latest or worldoil_news requests
\* and parses at most N listing pages; and for every parsed page on which no
\* hard stop fell, the next page was requested exactly when the page has a
\* next link and either max_pages = 0 or fewer than max_pages pages had been
\* parsed.
C13_PageBudget ==
  /\ max_pages > 0 => (Cardinality(listed) <= max_pages /\ pages_seen <= max_pages)
  /\ \A p \in ParsedPages :
       NoStopUpTo(p, Len(site)) =>
         ((p + 1) \in listed <=> (p < NumPages(site) /\ (max_pages = 0 \/ p < max_pages)))

\* C13 witness: a crawl that ended because the budget was used up: no hard
\* stop fell, the last parsed page had a next link, and max_pages pages were
\* requested.
C13_Witness ==
  /\ pc = "scraped"
  /\ max_pages > 0
  /\ stopAt = 0
  /\ Cardinality(listed) = max_pages
  /\ NumPages(site) > max_pages

\* one crawl of jpt_latest without hard stop and page budget, over a short
\* listing, with any title text for the first article and any labels on its
\* page
InitDetail ==
  /\ committed = Missing
  /\ batch = Missing
  /\ tmpfile = Missing
  /\ master = Missing
  /\ script = "none"
  /\ pc = "crawl"
  /\ outcome = "none"
  /\ pre = Missing
  /\ preBatch = Missing
  /\ out = <<>>
  /\ runsLeft = 0
  /\ spider = "jpt_latest"
  /\ site \in {s \in Sites : Len(s) <= MaxDetail}
  /\ max_pages = 0
  /\ last_date = None
  /\ pages_seen = 0
  /\ listingQ = {1}
  /\ detailQ = {}
  /\ items = <<>>
  /\ scheduled = {}
  /\ listed = {1}
  /\ stopAt = 0
  /\ now = 1
  /\ sections = <<>>
  /\ seen_urls = {}
  /\ \E t \in TitleTexts : titles = [u \in AllUrls |-> IF u = "a" THEN t ELSE "T"]
  /\ \E pg \in DetailPages :
       detail_pages = [u \in AllUrls |-> IF u = "a" THEN pg ELSE DefaultPage]
  /\ retry_times = <<>>
  /\ dropped = {}
  /\ NoApp

NextDetail ==
  \/ JptLatest_parse
  \/ JptLatest_parse_article
  \/ spider_closed

SpecDetail == InitDetail /\ [][NextDetail]_vars

\* the detail fetch of stub i was scheduled and has been answered
Completed(i) == i \in scheduled /\ \A r \in detailQ : r.pos # i
ItemsOf(u) == {k \in 1..Len(items) : items[k].url = u}
\* the title text of a stub with whitespace runs collapsed
TitleShown(u) == CASE titles[u] = " T " -> "T" [] OTHER -> titles[u]

\* C14: every completed detail fetch of jpt_latest has emitted exactly one
\* record; the record carries the url, the title and the date of the stub the
\* fetch was scheduled for; there is no other record; and where neither the
\* primary nor the fallback selector finds a topic (a tag) on the article
\* page the record has no topics (no tags).
C14_OneRecordPerDetail ==
  /\ \A i \in 1..Len(site) :
       Completed(i) =>
         /\ Cardinality(ItemsOf(site[i].url)) = 1
         /\ \A k \in ItemsOf(site[i].url) :
              /\ items[k].title = TitleShown(site[i].url)
              /\ items[k].pd = site[i].date
              /\ (detail_pages[site[i].url].ptopics = <<>>
                    /\ detail_pages[site[i].url].ftopics = <<>>) => items[k].topics = <<>>
              /\ (detail_pages[site[i].url].ptags = <<>>
                    /\ detail_pages[site[i].url].ftags = <<>>) => items[k].tags = <<>>
  /\ Len(items) = Cardinality({i \in 1..Len(site) : Completed(i)})

\* C14 witness: the detail fetch of an article whose page holds no label for
\* any selector has completed and its record, without topics and tags, is in
\* the batch; another article was fetched as well.
C14_Witness ==
  /\ pc = "scraped"
  /\ Len(items) = 2
  /\ \E k \in 1..Len(batch.rows) :
       /\ batch.rows[k].url = "a"
       /\ batch.rows[k].topics = <<>> /\ batch.rows[k].tags = <<>>
       /\ detail_pages["a"].ptopics = <<>> /\ detail_pages["a"].ftopics = <<>>
       /\ detail_pages["a"].ptags = <<>> /\ detail_pages["a"].ftags = <<>>

\* one crawl of jpt_latest, without hard stop, in which downloads of detail
\* pages may fail; the stubs are dated 1 or undated
InitRetry ==
  /\ committed = Missing
  /\ batch = Missing
  /\ tmpfile = Missing
  /\ master = Missing
  /\ script = "none"
  /\ pc = "crawl"
  /\ outcome = "none"
  /\ pre = Missing
  /\ preBatch = Missing
  /\ out = <<>>
  /\ runsLeft = 0
  /\ spider = "jpt_latest"
  /\ site \in {s \in Sites : \A i \in 1..Len(s) : s[i].date <= 1}
  /\ max_pages \in 0..MaxBudget
  /\ last_date = None
  /\ pages_seen = 0
  /\ listingQ = {1}
  /\ detailQ = {}
  /\ items = <<>>
  /\ scheduled = {}
  /\ listed = {1}
  /\ stopAt = 0
  /\ now = 1
  /\ sections = <<>>
  /\ seen_urls = {}
  /\ titles = [u \in AllUrls |-> "T"]
  /\ detail_pages = [u \in AllUrls |-> DefaultPage]
  /\ retry_times = [i \in 1..MaxArticles |-> 0]
  /\ dropped = {}
  /\ NoApp

NextRetry ==
  \/ JptLatest_parse
  \/ JptLatest_parse_article
  \/ download_failed
  \/ spider_closed

SpecRetry == InitRetry /\ [][NextRetry]_vars
\* the engine keeps working while a request is queued
SpecRetryFair == SpecRetry /\ WF_vars(NextRetry)

\* C15: a detail request is retried at most RETRY_TIMES times (RETRY_TIMES + 1
\* download attempts) and is given up only after the last retry failed; when
\* the crawl has ended every scheduled detail fetch that was not given up has
\* exactly one record in the batch; the listing pages requested are those a
\* crawl without failures requests; and the crawl always ends, with the
\* records in the batch file.
C15_FailedDetailDroppedAlone ==
  /\ [](\A i \in 1..MaxArticles : retry_times[i] <= RETRY_TIMES)
  /\ [](\A i \in dropped : retry_times[i] = RETRY_TIMES /\ ItemsOf(site[i].url) = {})
  /\ [](pc = "scraped" =>
         /\ \A i \in scheduled \ dropped :
              Cardinality({k \in 1..Len(batch.rows) : batch.rows[k].url = site[i].url}) = 1
         /\ \A i \in 1..Len(site) : Dated(i) /\ InBudget(i) => i \in scheduled)
  /\ [](\A p \in ParsedPages :
         (p + 1) \in listed <=> (p < NumPages(site) /\ (max_pages = 0 \/ p < max_pages)))
  /\ <>(pc = "scraped")

\* C15 witness: the crawl has ended; a detail request of the first page was
\* given up, another one emitted its record, and the second listing page was
\* requested.
C15_Witness ==
  /\ pc = "scraped"
  /\ \E i \in dropped : PageOfPos(i) = 1
  /\ \E j \in scheduled \ dropped : PageOfPos(j) = 1
  /\ 2 \in listed

\* ------------------------------------------------------------ app.py: text
\* SubTwo is the subscript two of "CO₂".
SubTwo == "sub2"

\* " ".join(str(x).split()).strip(): whitespace runs collapse to one space
\* and leading / trailing whitespace goes
normalize_text(s) ==
  LET keep(i) == \/ s[i] # " "
                 \/ /\ i > 1
                    /\ s[i - 1] # " "
                    /\ \E j \in (i + 1)..Len(s) : s[j] # " "
  IN SelectIdx(s, {i \in 1..Len(s) : keep(i)})

\* WORD_SPLIT_RE.split(s): the pieces between separators and the separators
\* themselves (a whitespace run, "-" or "/"), empty pieces included
IsSep(c) == c \in {" ", "-", "/"}
RECURSIVE WORD_SPLIT_RE_split(_)
WORD_SPLIT_RE_split(s) ==
  IF \A i \in 1..Len(s) : ~IsSep(s[i]) THEN <<s>>
  ELSE LET i == CHOOSE k \in 1..Len(s) : IsSep(s[k]) /\ \A j \in 1..(k - 1) : ~IsSep(s[j])
           e == IF s[i] # " " THEN i
                ELSE CHOOSE k \in i..Len(s) :
                       /\ \A j \in i..k : s[j] = " "
                       /\ (k = Len(s) \/ s[k + 1] # " ")
       IN <<SubSeq(s, 1, i - 1), SubSeq(s, i, e)>>
            \o WORD_SPLIT_RE_split(SubSeq(s, e + 1, Len(s)))

\* "".join(parts)
RECURSIVE Join(_)
Join(parts) == IF parts = <<>> THEN <<>> ELSE Head(parts) \o Join(Tail(parts))

\* str.replace(old, new): every occurrence, left to right, without overlap
RECURSIVE Replace(_, _, _)
Replace(s, old, new) ==
  IF Len(s) < Len(old) THEN s
  ELSE IF SubSeq(s, 1, Len(old)) = old
       THEN new \o Replace(SubSeq(s, Len(old) + 1, Len(s)), old, new)
       ELSE <<Head(s)>> \o Replace(Tail(s), old, new)

BASE_ACRONYMS ==
  {<<"A", "I">>, <<"M", "L">>, <<"U", "S">>, <<"U", "K">>, <<"U", "A", "E">>,
   <<"L", "N", "G">>, <<"C", "C", "S">>, <<"C", "O", "2">>, <<"C", "O", "sub2">>,
   <<"M", "&", "A">>, <<"H", "S", "E">>, <<"O", "P", "E", "C">>, <<"N", "G", "L">>,
   <<"F", "P", "S", "O">>, <<"F", "L", "N", "G">>, <<"E", "O", "R">>, <<"I", "O", "R">>,
   <<"N", "P", "T">>, <<"R", "&", "D">>, <<"A", "P", "I">>, <<"I", "S", "O">>,
   <<"N", "A", "C", "E">>, <<"I", "I", "o", "T">>, <<"O", "T">>, <<"I", "T">>,
   <<"S", "C", "A", "D", "A">>, <<"P", "L", "C">>, <<"D", "C", "S">>, <<"E", "S", "G">>,
   <<"G", "H", "G">>}

looks_like_acronym(token, acronym_set) ==
  LET t == strip(token)
      n == Len(t)
  IN /\ token # <<>>
     /\ \/ Upper(t) \in acronym_set
        \/ \E k \in 1..4 :
             /\ k < n
             /\ n - k <= 3
             /\ \A i \in 1..k : IsLetter(t[i])
             /\ \A i \in (k + 1)..n : IsDigit(t[i])
        \/ n >= 2 /\ \A i \in 1..n : isupper(t[i])
        \/ /\ \E i \in 1..n : t[i] \in {"&", "."}
           /\ \E i \in 1..n : IsLetter(t[i])

\* variant: the internal-casing rule comes before the acronym rule
smart_title_token_CasingFirst(token, acronym_set) ==
  LET raw == strip(token)
      up == Upper(raw)
  IN IF raw = <<>> THEN token
     ELSE IF raw \in {<<"-">>, <<"/">>} THEN raw
     ELSE IF /\ \E i \in 2..Len(raw) : isupper(raw[i])
             /\ \E i \in 1..Len(raw) : islower(raw[i])
          THEN raw
     ELSE IF looks_like_acronym(raw, acronym_set)
          THEN IF up = <<"C", "O", SubTwo>> THEN <<"C", "O", "2">> ELSE up
     ELSE <<UpperChar(raw[1])>> \o Lower(Tail(raw))

smart_title_token(token, acronym_set) ==
  LET raw == strip(token)
      up == Upper(raw)
  IN IF raw = <<>> THEN token
     ELSE IF raw \in {<<"-">>, <<"/">>} THEN raw
     ELSE IF looks_like_acronym(raw, acronym_set)
          THEN IF up = <<"C", "O", SubTwo>> THEN <<"C", "O", "2">> ELSE up
     ELSE IF /\ \E i \in 2..Len(raw) : isupper(raw[i])
             /\ \E i \in 1..Len(raw) : islower(raw[i])
          THEN raw
     ELSE <<UpperChar(raw[1])>> \o Lower(Tail(raw))

normalize_phrase(s0, acronym_set) ==
  LET s == normalize_text(s0)
      parts == WORD_SPLIT_RE_split(s)
      cased == Join([k \in 1..Len(parts) |-> smart_title_token(parts[k], acronym_set)])
      joined == normalize_text(cased)
  IN IF s = <<>> THEN <<>>
     ELSE Replace(Replace(joined, <<"C", "o", "2">>, <<"C", "O", "2">>),
                  <<"C", "o", SubTwo>>, <<"C", "O", "2">>)

\* ------------------------------------------------- app.py: normalize_phrase
MaxPhraseLen == 4
\* the characters of the phrases tried: letters of both cases, the two
\* spellings of the two in "co2", an acronym mark, a separator and whitespace
PhraseChars == {"A", "C", "o", "2", SubTwo, "&", "-", " "}
lng_export_terminal ==
  <<"l", "n", "g", " ", "e", "x", "p", "o", "r", "t", " ",
    "t", "e", "r", "m", "i", "n", "a", "l">>
co2_capture == <<"c", "o", SubTwo, " ", "c", "a", "p", "t", "u", "r", "e">>
Phrases == SeqsUpTo(PhraseChars, MaxPhraseLen) \cup {lng_export_terminal, co2_capture}
AcronymSets == {{}, BASE_ACRONYMS}

\* no file, no script run and no crawl: only the app runs
NoPipeline ==
  /\ committed = Missing
  /\ batch = Missing
  /\ tmpfile = Missing
  /\ master = Missing
  /\ script = "none"
  /\ outcome = "none"
  /\ pre = Missing
  /\ preBatch = Missing
  /\ out = <<>>
  /\ runsLeft = 0
  /\ NoCrawl
  /\ sections = <<>>
  /\ seen_urls = {}
  /\ titles = [u \in AllUrls |-> "T"]
  /\ detail_pages = [u \in AllUrls |-> DefaultPage]
  /\ retry_times = <<>>
  /\ dropped = {}
  /\ formats = DefaultFormats

InitPhrase ==
  /\ NoPipeline
  /\ pc = "app"
  /\ phrase \in Phrases
  /\ acronyms \in AcronymSets
  /\ shown = <<>>
  /\ master_tags = <<>>
  /\ tags = <<>>
  /\ topics = <<>>
  /\ tags_norm = <<>>
  /\ topics_norm = <<>>
  /\ country_set = {}
  /\ countries = <<>>

\* normalize_phrase applied to the phrase, then to its own result
ApplyNormalizePhrase ==
  /\ pc = "app"
  /\ Len(shown) < 2
  /\ shown' = Append(shown, normalize_phrase(IF shown = <<>> THEN phrase
                                             ELSE shown[Len(shown)], acronyms))
  /\ UNCHANGED <<fileVars, runVars, crawlVars>>
  /\ UNCHANGED <<sections, seen_urls, titles, detail_pages, retry_times, dropped, formats>>
  /\ UNCHANGED <<phrase, acronyms, master_tags, tags, topics, tags_norm, topics_norm,
                 country_set, countries>>

NextPhrase == ApplyNormalizePhrase

SpecPhrase == InitPhrase /\ [][NextPhrase]_vars

\* C16: normalize_phrase is idempotent: applied to its own result, with the
\* same acronym set, it returns that result unchanged.
C16_NormalizePhraseIdempotent == Len(shown) = 2 => shown[2] = shown[1]

\* the token is recognised as an acronym: its upper-cased form is in the
\* acronym set, or it is 1-4 letters followed by 1-3 digits, or two or more
\* uppercase letters, or it holds "&" or "." and a letter
Recognised(t, A) ==
  LET n == Len(t)
      letters == {i \in 1..n : IsLetter(t[i])}
      digits == {i \in 1..n : IsDigit(t[i])}
  IN \/ Upper(t) \in A
     \/ /\ letters \cup digits = 1..n
        /\ Cardinality(letters) \in 1..4
        /\ Cardinality(digits) \in 1..3
        /\ \A i \in letters : \A j \in digits : i < j
     \/ n >= 2 /\ Upper(t) = t /\ letters = 1..n
     \/ letters # {} /\ \E i \in 1..n : t[i] = "&" \/ t[i] = "."

\* what the token rules make of one piece of the split phrase, in their
\* priority order
Rendering(t, A) ==
  CASE t = <<>> \/ IsSep(t[1]) -> t
    [] OTHER ->
       IF Recognised(t, A)
       THEN IF Upper(t) = <<"C", "O", SubTwo>> THEN <<"C", "O", "2">> ELSE Upper(t)
       ELSE IF Upper(Tail(t)) # Lower(Tail(t)) /\ Lower(Tail(t)) # Tail(t) /\ Upper(t) # t
       THEN t
       ELSE <<UpperChar(Head(t))>> \o Lower(Tail(t))

\* the phrase with every piece replaced by its rendering
RulesAlone(p, A) ==
  LET parts == WORD_SPLIT_RE_split(normalize_text(p))
  IN normalize_text(Join([k \in 1..Len(parts) |-> Rendering(parts[k], A)]))

\* the final substitution: "Co2" and "Co₂" become "CO2"
Fold(s) ==
  Replace(Replace(s, <<"C", "o", "2">>, <<"C", "O", "2">>),
          <<"C", "o", SubTwo>>, <<"C", "O", "2">>)

\* the text the k-th application of normalize_phrase was given
Given(k) == IF k = 1 THEN phrase ELSE shown[k - 1]

\* C18 as the specification states it: the result of normalize_phrase is the
\* phrase with each token rendered by the first token rule that applies, and
\* the separators kept.
C18_TokenRulesAlone ==
  \A k \in 1..Len(shown) : shown[k] = RulesAlone(Given(k), acronyms)

\* C18: the result of normalize_phrase is the phrase with each token rendered
\* by the first token rule that applies (acronym: uppercase, "CO₂" as "CO2";
\* else internal casing: unchanged; else first character uppercase and the
\* rest lowercase) and the separators kept, after which every "Co2" / "Co₂"
\* left in the text is rewritten to "CO2"; "lng export terminal" gives
\* "LNG Export Terminal" and "co₂ capture" gives "CO2 Capture" with the base
\* acronym set.
C18_TokenRulesThenFold ==
  /\ \A k \in 1..Len(shown) : shown[k] = Fold(RulesAlone(Given(k), acronyms))
  /\ shown # <<>> /\ acronyms = BASE_ACRONYMS /\ phrase = lng_export_terminal
       => shown[1] = <<"L", "N", "G", " ", "E", "x", "p", "o", "r", "t", " ",
                       "T", "e", "r", "m", "i", "n", "a", "l">>
  /\ shown # <<>> /\ acronyms = BASE_ACRONYMS /\ phrase = co2_capture
       => shown[1] = <<"C", "O", "2", " ", "C", "a", "p", "t", "u", "r", "e">>

\* C18 case: a token that is an acronym by its shape and also has internal
\* casing was rendered by the acronym rule
C18_Witness ==
  /\ phrase = <<"o", "C", "2">>
  /\ acronyms = {}
  /\ shown # <<>>
  /\ shown[1] = <<"O", "C", "2">>

\* ------------------------------------------- app.py: tags and topics of a row
MaxVocab == 2
MaxLabels == 2
\* the texts of the tag column of all_tags.csv
VocabTexts == {<<"A", "o">>, <<"a", "O">>, <<" ", "a", " ", " ", "o">>, <<" ">>}
\* the labels _parse_listish returns for a row: stripped and not empty
RowLabels == {<<"a", "o">>, <<"a", "O">>, <<"a", " ", " ", "o">>, <<"o">>}

\* load_master_tags: the normalised texts of the tag column, empty ones left out
load_master_tags(col) ==
  LET norm == [i \in 1..Len(col) |-> normalize_text(col[i])]
  IN SelectIdx(norm, {i \in 1..Len(col) : norm[i] # <<>>})

build_acronym_set(mtags) ==
  LET shape(t) == /\ Len(t) >= 2
                  /\ \A i \in 1..Len(t) :
                       isupper(t[i]) \/ IsDigit(t[i]) \/ t[i] \in {"&", ".", "/", "-"}
                  /\ \E i \in 1..Len(t) : isupper(t[i])
      marked(t) == /\ \E i \in 1..Len(t) : t[i] \in {"&", "."}
                   /\ \E i \in 1..Len(t) : IsLetter(t[i])
  IN BASE_ACRONYMS \cup
       {Upper(normalize_text(mtags[i])) :
          i \in {j \in 1..Len(mtags) :
                   /\ normalize_text(mtags[j]) # <<>>
                   /\ shape(normalize_text(mtags[j])) \/ marked(normalize_text(mtags[j]))}}

\* build_canonical_tag_map: the keys, and the value of a key (a later
\* vocabulary entry with the same key overwrites an earlier one)
canonical_map_keys(mtags) ==
  {Lower(normalize_text(mtags[i])) : i \in 1..Len(mtags)} \ {<<>>}
canonical_map(mtags, acronym_set, key) ==
  LET hits == {i \in 1..Len(mtags) : Lower(normalize_text(mtags[i])) = key}
  IN normalize_phrase(mtags[MaxOf(hits)], acronym_set)

\* the list without the repeats of an earlier element
Deduped(xs) ==
  SelectIdx(xs, {i \in 1..Len(xs) : \A j \in 1..(i - 1) : xs[j] # xs[i]})

normalize_tags_list(ts, mtags, acronym_set) ==
  LET raw == [i \in 1..Len(ts) |-> normalize_text(ts[i])]
      kept == SelectIdx(raw, {i \in 1..Len(ts) : raw[i] # <<>>})
  IN Deduped([i \in 1..Len(kept) |->
                IF Lower(kept[i]) \in canonical_map_keys(mtags)
                THEN canonical_map(mtags, acronym_set, Lower(kept[i]))
                ELSE normalize_phrase(kept[i], acronym_set)])

normalize_topics_list(ts, acronym_set) ==
  LET raw == [i \in 1..Len(ts) |-> normalize_text(ts[i])]
      kept == SelectIdx(raw, {i \in 1..Len(ts) : raw[i] # <<>>})
  IN Deduped([i \in 1..Len(kept) |-> normalize_phrase(kept[i], acronym_set)])

\* df["tags_norm"] = df[col_tags].apply(normalize_tags_list)
main_tags_norm ==
  /\ pc = "app"
  /\ tags_norm' = normalize_tags_list(tags, master_tags, acronyms)
  /\ pc' = "tags_norm"
  /\ UNCHANGED <<fileVars, crawlVars>>
  /\ UNCHANGED <<script, outcome, pre, preBatch, out, runsLeft>>
  /\ UNCHANGED <<sections, seen_urls, titles, detail_pages, retry_times, dropped, formats>>
  /\ UNCHANGED <<phrase, acronyms, shown, master_tags, tags, topics, topics_norm,
                 country_set, countries>>

\* df["topics_norm"] = df[col_topics].apply(normalize_topics_list)
main_topics_norm ==
  /\ pc = "tags_norm"
  /\ topics_norm' = normalize_topics_list(topics, acronyms)
  /\ pc' = "topics_norm"
  /\ UNCHANGED <<fileVars, crawlVars>>
  /\ UNCHANGED <<script, outcome, pre, preBatch, out, runsLeft>>
  /\ UNCHANGED <<sections, seen_urls, titles, detail_pages, retry_times, dropped, formats>>
  /\ UNCHANGED <<phrase, acronyms, shown, master_tags, tags, topics, tags_norm,
                 country_set, countries>>

\* the canonical forms a normalised column must hold for the labels of a
\* row when the map's spelling wins: each label with a key of the Canonical
\* Tag Map gives the map's value for that key
MapValuesOf(labels) ==
  {canonical_map(master_tags, acronyms, Lower(normalize_text(labels[i]))) :
     i \in {j \in 1..Len(labels) :
              Lower(normalize_text(labels[j])) \in canonical_map_keys(master_tags)}}

\* C17: every tag and every topic whose whitespace-collapsed, lower-cased
\* text is a key of the Canonical Tag Map is shown in its normalised column
\* as the map's value for that key.
C17_MapSpellingWins ==
  /\ pc \in {"tags_norm", "topics_norm"} => MapValuesOf(tags) \subseteq Range(tags_norm)
  /\ pc = "topics_norm" => MapValuesOf(topics) \subseteq Range(topics_norm)

\* ------------------------------------------------------- app.py: countries
\* the characters in code-point order, for sorted()
CodePoints ==
  <<" ", "&", "-", ".", "/", "0", "1", "2", "3", "4", "5", "6", "7", "8", "9">>
    \o UpperCase \o LowerCase \o <<SubTwo>>
Code(c) == CHOOSE i \in 1..Len(CodePoints) : CodePoints[i] = c
\* x < y for two strings
StrLess(x, y) ==
  \E k \in 1..(Len(y)) :
    /\ \A i \in 1..(k - 1) : i <= Len(x) /\ x[i] = y[i]
    /\ k - 1 <= Len(x)
    /\ (k > Len(x) \/ Code(x[k]) < Code(y[k]))
\* sorted(out) of a set of strings
sorted(S) ==
  LET rank(x) == Cardinality({y \in S : StrLess(y, x)}) + 1
  IN [k \in 1..Cardinality(S) |-> CHOOSE x \in S : rank(x) = k]

COUNTRY_ABBREV_keys ==
  {<<"U", "S">>, <<"U", ".", "S", ".">>, <<"U", "S", "A">>,
   <<"U", "n", "i", "t", "e", "d", " ", "S", "t", "a", "t", "e", "s">>,
   <<"U", "n", "i", "t", "e", "d", " ", "S", "t", "a", "t", "e", "s", " ", "O", "f", " ", "A", "m", "e", "r", "i", "c", "a">>,
   <<"U", "K">>, <<"U", ".", "K", ".">>,
   <<"U", "n", "i", "t", "e", "d", " ", "K", "i", "n", "g", "d", "o", "m">>,
   <<"G", "r", "e", "a", "t", " ", "B", "r", "i", "t", "a", "i", "n">>,
   <<"U", "K", "/", "U", "K", "C", "S">>, <<"U", ".", "K", ".", "/", "U", "K", "C", "S">>,
   <<"B", "r", "i", "t", "a", "i", "n">>, <<"U", "A", "E">>,
   <<"U", ".", "A", ".", "E", ".">>,
   <<"U", "n", "i", "t", "e", "d", " ", "A", "r", "a", "b", " ", "E", "m", "i", "r", "a", "t", "e", "s">>}
COUNTRY_ABBREV(t) ==
    CASE t = <<"U", "S">> -> <<"U", "S">>
      [] t = <<"U", ".", "S", ".">> -> <<"U", "S">>
      [] t = <<"U", "S", "A">> -> <<"U", "S">>
      [] t = <<"U", "n", "i", "t", "e", "d", " ", "S", "t", "a", "t", "e", "s">> -> <<"U", "S">>
      [] t = <<"U", "n", "i", "t", "e", "d", " ", "S", "t", "a", "t", "e", "s", " ", "O", "f", " ", "A", "m", "e", "r", "i", "c", "a">> -> <<"U", "S">>
      [] t = <<"U", "K">> -> <<"U", "K">>
      [] t = <<"U", ".", "K", ".">> -> <<"U", "K">>
      [] t = <<"U", "n", "i", "t", "e", "d", " ", "K", "i", "n", "g", "d", "o", "m">> -> <<"U", "K">>
      [] t = <<"G", "r", "e", "a", "t", " ", "B", "r", "i", "t", "a", "i", "n">> -> <<"U", "K">>
      [] t = <<"U", "K", "/", "U", "K", "C", "S">> -> <<"U", "K">>
      [] t = <<"U", ".", "K", ".", "/", "U", "K", "C", "S">> -> <<"U", "K">>
      [] t = <<"B", "r", "i", "t", "a", "i", "n">> -> <<"U", "K">>
      [] t = <<"U", "A", "E">> -> <<"U", "A", "E">>
      [] t = <<"U", ".", "A", ".", "E", ".">> -> <<"U", "A", "E">>
      [] t = <<"U", "n", "i", "t", "e", "d", " ", "A", "r", "a", "b", " ", "E", "m", "i", "r", "a", "t", "e", "s">> -> <<"U", "A", "E">>

\* build_country_set_cached: without pycountry the fixed list of names; with
\* pycountry every name, official name and common name it knows, of which the
\* model keeps a few
FallbackCountries ==
  {<<"U", "S">>, <<"U", "K">>, <<"U", "A", "E">>} \cup
  {<<"C", "a", "n", "a", "d", "a">>, <<"M", "e", "x", "i", "c", "o">>,
   <<"B", "r", "a", "z", "i", "l">>, <<"A", "r", "g", "e", "n", "t", "i", "n", "a">>,
   <<"N", "o", "r", "w", "a", "y">>,
   <<"N", "e", "t", "h", "e", "r", "l", "a", "n", "d", "s">>,
   <<"G", "e", "r", "m", "a", "n", "y">>, <<"F", "r", "a", "n", "c", "e">>,
   <<"I", "t", "a", "l", "y">>, <<"S", "p", "a", "i", "n">>, <<"I", "n", "d", "i", "a">>,
   <<"C", "h", "i", "n", "a">>, <<"J", "a", "p", "a", "n">>, <<"K", "o", "r", "e", "a">>,
   <<"A", "u", "s", "t", "r", "a", "l", "i", "a">>,
   <<"S", "a", "u", "d", "i", " ", "A", "r", "a", "b", "i", "a">>,
   <<"Q", "a", "t", "a", "r">>, <<"K", "u", "w", "a", "i", "t">>, <<"I", "r", "a", "q">>,
   <<"I", "r", "a", "n">>, <<"O", "m", "a", "n">>, <<"E", "g", "y", "p", "t">>,
   <<"N", "i", "g", "e", "r", "i", "a">>, <<"M", "a", "l", "a", "y", "s", "i", "a">>,
   <<"G", "r", "e", "e", "c", "e">>}
PycountryCountries ==
  {<<"U", "S">>, <<"U", "K">>, <<"U", "A", "E">>} \cup
  {<<"N", "o", "r", "w", "a", "y">>,
   <<"K", "i", "n", "g", "d", "o", "m", " ", "o", "f", " ", "N", "o", "r", "w", "a", "y">>,
   <<"C", "a", "n", "a", "d", "a">>}
CountrySets == {FallbackCountries, PycountryCountries}

\* the third branch: US, UK and UAE in any letter case
extract_countries_from_tags(ts, cset) ==
  LET norm == [i \in 1..Len(ts) |-> normalize_text(ts[i])]
      code(t) == IF t \in COUNTRY_ABBREV_keys THEN {COUNTRY_ABBREV(t)}
                 ELSE IF t \in cset THEN {t}
                 ELSE IF Upper(t) \in {<<"U", "S">>, <<"U", "K">>, <<"U", "A", "E">>}
                      THEN {Upper(t)}
                 ELSE {}
  IN sorted(UNION {code(norm[i]) : i \in {j \in 1..Len(ts) : norm[j] # <<>>}})

\* the tags extract_countries_from_tags is tried on
CountryTags ==
  {<<"U", "S">>, <<"u", "s">>, <<"U", ".", "S", ".">>, <<"N", "o", "r", "w", "a", "y">>,
   <<"n", "o", "r", "w", "a", "y">>, <<"D", "r", "i", "l", "l", "i", "n", "g">>}

\* df["countries"] = df["tags_norm"].apply(extract_countries_from_tags)
main_countries ==
  /\ pc = "topics_norm"
  /\ countries' = extract_countries_from_tags(tags_norm, country_set)
  /\ pc' = "countries"
  /\ UNCHANGED <<fileVars, crawlVars>>
  /\ UNCHANGED <<script, outcome, pre, preBatch, out, runsLeft>>
  /\ UNCHANGED <<sections, seen_urls, titles, detail_pages, retry_times, dropped, formats>>
  /\ UNCHANGED <<phrase, acronyms, shown, master_tags, tags, topics, tags_norm,
                 topics_norm, country_set>>

\* main has loaded the vocabulary and a row; the row is not normalised yet
InitTags ==
  /\ NoPipeline
  /\ pc = "app"
  /\ phrase = <<>>
  /\ shown = <<>>
  /\ master_tags \in {load_master_tags(col) : col \in SeqsUpTo(VocabTexts, MaxVocab)}
  /\ acronyms = build_acronym_set(master_tags)
  /\ tags \in SeqsUpTo(RowLabels, MaxLabels)
  /\ topics \in SeqsUpTo(RowLabels, MaxLabels)
  /\ tags_norm = <<>>
  /\ topics_norm = <<>>
  /\ country_set \in CountrySets
  /\ countries = <<>>

NextTags == main_tags_norm \/ main_topics_norm \/ main_countries

SpecTags == InitTags /\ [][NextTags]_vars

\* extract_countries_from_tags on a tag list of any spelling
InitCountries ==
  /\ NoPipeline
  /\ pc = "topics_norm"
  /\ phrase = <<>>
  /\ acronyms = BASE_ACRONYMS
  /\ shown = <<>>
  /\ master_tags = <<>>
  /\ tags = <<>>
  /\ topics = <<>>
  /\ tags_norm \in SeqsUpTo(CountryTags, MaxLabels)
  /\ topics_norm = <<>>
  /\ country_set \in CountrySets
  /\ countries = <<>>

NextCountries == main_countries

SpecCountries == InitCountries /\ [][NextCountries]_vars

\* C19: the countries of a row are exactly the alias-map code of each tag
\* that is an alias key, and each other tag that is an entry of the
\* recognised-country set; a tag that is neither contributes nothing, and no
\* code is repeated.
C19_ExactMatchesOnly ==
  pc = "countries" =>
    /\ Range(countries) =
         {COUNTRY_ABBREV(tags_norm[i]) :
            i \in {j \in 1..Len(tags_norm) : tags_norm[j] \in COUNTRY_ABBREV_keys}}
         \cup {tags_norm[i] :
                 i \in {j \in 1..Len(tags_norm) :
                          tags_norm[j] \notin COUNTRY_ABBREV_keys /\ tags_norm[j] \in country_set}}
    /\ Cardinality(Range(countries)) = Len(countries)

\* ------------------------------------------------------------ no-op merge
\* the batch file is absent or holds no row
EmptyBatch(f) == f.rows = <<>>
\* the committed dataset has a url in every row and no url twice
UrlUnique(f) ==
  /\ f.st = "table"
  /\ UniqueUrls(f.rows)
  /\ \A i \in 1..Len(f.rows) : f.rows[i].url # ""

\* C20: when a merge found a committed dataset with unique urls and an empty
\* batch (absent, or present without rows), the committed dataset holds the
\* same set of rows after the merge as before it.
C20_EmptyBatchMergeKeepsRows ==
  (/\ Ended
   /\ script \in {"update_csv", "merge_jpt_csv", "merge_three_way"}
   /\ UrlUnique(pre)
   /\ EmptyBatch(preBatch))
    => Range(committed.rows) = Range(pre.rows)

\* ------------------------------------------------------------- re-merge
\* the same merge script is run twice on the batch the first run merged
InitRemerge ==
  /\ NoExt
  /\ committed \in OldFiles
  /\ batch \in NewFiles
  /\ tmpfile = Missing
  /\ master = Missing
  /\ script \in {"update_csv", "merge_jpt_csv"}
  /\ pc = "idle"
  /\ outcome = "none"
  /\ pre = committed
  /\ preBatch = batch
  /\ out = <<>>
  /\ runsLeft = 2
  /\ NoCrawl

\* update_csv.py is launched (again)
Rerun_merge_dedupe == script = "update_csv" /\ merge_dedupe_begin
\* merge_jpt_csv.py is launched (again)
Rerun_MergeJptCsv_main == script = "merge_jpt_csv" /\ MergeJptCsv_main_begin

NextRemerge ==
  \/ Rerun_merge_dedupe
  \/ merge_dedupe_write_tmp
  \/ merge_dedupe_replace
  \/ Rerun_MergeJptCsv_main
  \/ InPlaceOpen
  \/ InPlaceWriteRow
  \/ MergeJptCsv_main_end

SpecRemerge == InitRemerge /\ [][NextRemerge]_vars

\* C21: when the second of two successive merges of the same batch has
\* written, the committed file holds exactly the rows the first merge left,
\* and no url twice.
C21_RemergeAbsorbed ==
  (runsLeft = 0 /\ outcome = "written")
    => /\ Range(committed.rows) = Range(pre.rows)
       /\ UniqueUrls(committed.rows)

\* C21 case: the second merge has written; the batch holds a url the
\* committed file had before the first merge, with a newer scraped_at
C21_Witness ==
  /\ runsLeft = 0
  /\ outcome = "written"
  /\ \E i \in 1..Len(preBatch.rows) : \E j \in 1..Len(committed.rows) :
       /\ preBatch.rows[i].url # ""
       /\ committed.rows[j] = preBatch.rows[i]
       /\ committed.rows[j].sa = 2
       /\ Len(committed.rows) = 2

\* the rows of the committed input and of the batch that share the url u
RowsWithUrl(rs, u) == {i \in 1..Len(rs) : rs[i].url = u}

\* C22: when a merge has written and a url has one row in the committed
\* input and one in the batch, with equal scraped_at or with scraped_at absent
\* on one or both, the row of the url in the committed file is the batch row.
C22_TieOrAbsentBatchWins ==
  (outcome = "written" /\ script \in {"update_csv", "merge_jpt_csv"}) =>
    \A u \in (UrlsOf(pre.rows) \cap UrlsOf(preBatch.rows)) \ {""} :
      \A i \in RowsWithUrl(pre.rows, u) : \A j \in RowsWithUrl(preBatch.rows, u) :
        (/\ RowsWithUrl(pre.rows, u) = {i}
         /\ RowsWithUrl(preBatch.rows, u) = {j}
         /\ \/ ToDatetimeSa(pre.rows[i].sa) = ToDatetimeSa(preBatch.rows[j].sa)
            \/ ToDatetimeSa(pre.rows[i].sa) = NaT
            \/ ToDatetimeSa(preBatch.rows[j].sa) = NaT)
          => \A k \in RowsWithUrl(committed.rows, u) :
               committed.rows[k].sa = ToDatetimeSa(preBatch.rows[j].sa)

\* C23: a merge that found no valid row in the committed input and none in
\* the batch has ended by raising, and the committed file is as it was.
C23_BothEmptyRaises ==
  (/\ Ended
   /\ script \in {"merge_jpt_csv", "merge_three_way"}
   /\ Normalize(pre.rows) = <<>>
   /\ Normalize(preBatch.rows) = <<>>)
    => (outcome \in {"guard", "error"} /\ committed = pre)

\* ------------------------------------------------------- the master guard
\* rows whose published_date is free: none, the earliest date, the latest
GuardRows ==
  {[url |-> "", pd |-> 0, sa |-> 1, source |-> ""]}
    \cup {[url |-> u, pd |-> d, sa |-> 1, source |-> ""] : u \in {"a", "b"}, d \in {0, 1, MaxDate}}

\* one run of merge_jpt_csv on a committed file of such rows
InitGuard ==
  /\ NoExt
  /\ committed \in {Missing} \cup {Table(rs) : rs \in SeqsUpTo(GuardRows, MaxOld)}
  /\ batch \in {Missing, Table(<<>>), Table(<<[url |-> "a", pd |-> 1, sa |-> 2, source |-> ""]>>)}
  /\ tmpfile = Missing
  /\ master = Missing
  /\ script = "none"
  /\ pc = "idle"
  /\ outcome = "none"
  /\ pre = committed
  /\ preBatch = batch
  /\ out = <<>>
  /\ runsLeft = 1
  /\ NoCrawl

NextGuard ==
  \/ MergeJptCsv_main_begin
  \/ InPlaceOpen
  \/ InPlaceWriteRow
  \/ MergeJptCsv_main_end

SpecGuard == InitGuard /\ [][NextGuard]_vars

\* the parseable published dates of the rows
ParsedDates(rs) == {ToDatetimePd(rs[i].pd) : i \in 1..Len(rs)} \ {NaT}
\* the rows miss an expectation: fewer unique urls than the floor, or an
\* earliest parseable date after the latest allowed one
MissesExpectations(rs) ==
  \/ NUnique(rs) < MIN_UNIQUE_URLS
  \/ (ParsedDates(rs) # {} /\ \A d \in ParsedDates(rs) : d > MAX_ALLOWED_MIN_DATE)

\* C24: a run of merge_jpt_csv on a committed file with valid rows has raised
\* in the guard, with nothing concatenated and nothing written, when those
\* rows miss an expectation, and has not raised in the guard when they meet
\* both.
C24_GuardBeforeMerge ==
  (script = "merge_jpt_csv" /\ pre.st = "table" /\ Normalize(pre.rows) # <<>>) =>
    IF MissesExpectations(Normalize(pre.rows))
    THEN outcome = "guard" /\ committed = pre /\ out = <<>> /\ tmpfile = Missing
    ELSE outcome # "guard"

\* C24 case: the guard raised on a committed file with enough unique urls
\* whose earliest date is too late, while the batch had a row to merge
C24_Witness ==
  /\ script = "merge_jpt_csv"
  /\ outcome = "guard"
  /\ NUnique(pre.rows) >= MIN_UNIQUE_URLS
  /\ preBatch.rows # <<>>

\* --------------------------------------- merges of rows with free dates
\* rows with a url, a published date and a scrape time, each chosen freely
DatedRows ==
  {[url |-> u, pd |-> d, sa |-> s, source |-> ""] : u \in {"a", "b"}, d \in {1, MaxDate}, s \in {1, 2}}

\* one run of one script that dedupes after sorting: update_csv and
\* merge_jpt_csv merge the committed file with the batch; merge_three_way
\* and merge_worldoil run after a scrape and merge the hand-kept master with
\* the scrape
InitDated ==
  /\ NoExt
  /\ \E old \in {Table(rs) : rs \in SeqsUpTo(DatedRows, MaxOld)} :
       \E sp \in {"none", "jpt_latest", "worldoil_news"} :
         /\ spider = sp
         /\ committed = IF sp = "none" THEN old ELSE Missing
         /\ master = IF sp = "none" THEN Missing ELSE old
         /\ pc = IF sp = "none" THEN "idle" ELSE "scraped"
  /\ batch \in {Table(rs) : rs \in SeqsUpTo(DatedRows, MaxNew)}
  /\ tmpfile = Missing
  /\ script = "none"
  /\ outcome = "none"
  /\ pre = committed
  /\ preBatch = batch
  /\ out = <<>>
  /\ runsLeft = 1
  /\ site = <<>>
  /\ max_pages = 0
  /\ last_date = None
  /\ pages_seen = 0
  /\ listingQ = {}
  /\ detailQ = {}
  /\ items = <<>>
  /\ scheduled = {}
  /\ listed = {}
  /\ stopAt = 0
  /\ now = 1

NextDated ==
  \/ merge_dedupe_begin
  \/ merge_dedupe_write_tmp
  \/ merge_dedupe_replace
  \/ MergeJptCsv_main_begin
  \/ InPlaceOpen
  \/ InPlaceWriteRow
  \/ MergeJptCsv_main_end
  \/ MergeThreeWay_main_begin
  \/ MergeThreeWay_write_tmp
  \/ MergeThreeWay_replace
  \/ MergeWorldoil_main_begin
  \/ atomic_write_csv_tmp
  \/ atomic_write_csv_replace

SpecDated == InitDated /\ [][NextDated]_vars

\* the rows a run merged: the older input, then the batch
MergedInputs ==
  (IF script \in {"merge_three_way", "merge_worldoil"} THEN master.rows ELSE pre.rows)
    \o preBatch.rows

\* C25 (as the specification states it): after a merge script has written,
\* the committed row of every url carries the latest scraped_at of the input
\* rows with that url, whatever their published dates are.
C25_SurvivorIgnoresPublishedDate ==
  outcome = "written" =>
    \A u \in UrlsOf(MergedInputs) :
      \A k \in RowsWithUrl(committed.rows, u) :
        ToDatetimeSa(committed.rows[k].sa) =
          MaxOf({ToDatetimeSa(MergedInputs[i].sa) : i \in RowsWithUrl(MergedInputs, u)})

\* the same for every merge script but merge_worldoil
C25_OtherScripts ==
  script # "merge_worldoil" => C25_SurvivorIgnoresPublishedDate

\* --------------------------------------------- files in other formats
\* the identity headers a file may carry and the formats built from them
Headers ==
  {UrlHeader, <<"l", "i", "n", "k">>, <<"P", "e", "r", "m", "a", "l", "i", "n", "k">>,
   <<"H", "R", "E", "F">>}
FileFormats == [sep : {",", "\t"}, head : Headers]
FormatRows ==
  {[url |-> "a", pd |-> 1, sa |-> 1, source |-> ""], [url |-> "b", pd |-> 1, sa |-> 1, source |-> ""]}

\* one run of merge_jpt_csv on a committed file and a batch in any of the
\* formats; the batch holds a later scrape of article "a"
InitFormats ==
  /\ sections = <<>>
  /\ seen_urls = {}
  /\ titles = [u \in AllUrls |-> "T"]
  /\ detail_pages = [u \in AllUrls |-> DefaultPage]
  /\ retry_times = <<>>
  /\ dropped = {}
  /\ phrase = <<>>
  /\ acronyms = {}
  /\ shown = <<>>
  /\ master_tags = <<>>
  /\ tags = <<>>
  /\ topics = <<>>
  /\ tags_norm = <<>>
  /\ topics_norm = <<>>
  /\ country_set = {}
  /\ countries = <<>>
  /\ formats \in [master : FileFormats, new : FileFormats]
  /\ committed \in {Missing} \cup {Table(rs) : rs \in SeqsUpTo(FormatRows, MaxOld)}
  /\ batch \in {Table(rs) : rs \in SeqsUpTo({[url |-> "a", pd |-> 1, sa |-> 2, source |-> ""]}, MaxNew)}
  /\ tmpfile = Missing
  /\ master = Missing
  /\ script = "none"
  /\ pc = "idle"
  /\ outcome = "none"
  /\ pre = committed
  /\ preBatch = batch
  /\ out = <<>>
  /\ runsLeft = 1
  /\ NoCrawl

NextFormats ==
  \/ MergeJptCsv_main_begin
  \/ InPlaceOpen
  \/ InPlaceWriteRow
  \/ MergeJptCsv_main_end

SpecFormats == InitFormats /\ [][NextFormats]_vars

\* the header is "url" or one of the variants, in any letter case
IsUrlVariant(h) == \E k \in 1..Len(UrlCandidates) : Lower(h) = UrlCandidates[k]

\* C26 (as the specification states it): merge_jpt_csv, run on files that are
\* comma- or tab-delimited and headed by url or a variant of it, merges the
\* rows with that column as their url: it returns without merging only when
\* neither file has a row with a url, its guard raises only when the
\* committed rows miss an expectation, and what it writes is the merge of
\* the rows of both files.
C26_VariantHeadersMerged ==
  (/\ script = "merge_jpt_csv"
   /\ IsUrlVariant(formats.master.head)
   /\ IsUrlVariant(formats.new.head))
  => /\ outcome = "returned" => (Normalize(pre.rows) = <<>> /\ Normalize(preBatch.rows) = <<>>)
     /\ outcome = "guard" => MasterGuardRaises(Normalize(pre.rows))
     /\ outcome = "written" =>
          Range(committed.rows) =
            Range(MergeJptDeduped(Normalize(pre.rows), Normalize(preBatch.rows)))

\* the same for files whose separator is the tab or whose header is "url"
C26_TabOrUrlHeader ==
  (/\ formats.master.sep = "\t" \/ formats.master.head = UrlHeader
   /\ formats.new.sep = "\t" \/ formats.new.head = UrlHeader)
  => C26_VariantHeadersMerged

\* C27 (as the specification states it): the committed file a merge script
\* has written holds no row with an empty url.
C27_WrittenRowsHaveUrl ==
  outcome = "written" => \A i \in 1..Len(committed.rows) : committed.rows[i].url # ""

\* the same for merge_jpt_csv alone
C27_MergeJptCsvOnly ==
  script = "merge_jpt_csv" => C27_WrittenRowsHaveUrl

\* C28 (as the specification states it): in the committed file a merge script
\* has written every published_date is empty or a date, and the hard-stop
\* date read_last_date_from_csv takes from the file is a date or None.
C28_WrittenDatesValid ==
  outcome = "written" =>
    /\ \A i \in 1..Len(committed.rows) : committed.rows[i].pd \in 0..MaxDate
    /\ read_last_date_from_csv(committed) \in {None} \cup (1..MaxDate)

\* the same for every script but update_jpt_csv
C28_OtherScripts ==
  script # "update_jpt_csv" => C28_WrittenDatesValid

\* ------------------------------------------- launches with the hard stop
\* update_csv.run_scrape, lines 39-76: unlink _new.csv, then `scrapy crawl
\* jpt_latest -a max_pages=.. -a stop_at_last_date=1 -a master_csv_path=<jpt.csv>
\* -O _new.csv`.  JptLatestSpider.__init__ takes the path as csv_path; the
\* argument master_csv_path lands in **kwargs and csv_path stays None, so
\* read_last_date_from_csv gets no path.
run_scrape ==
  /\ UNCHANGED extVars
  /\ pc = "idle"
  /\ spider = "jpt_latest"
  /\ runsLeft > 0
  /\ runsLeft' = runsLeft - 1
  /\ batch' = Missing
  /\ \E mp \in 1..MaxBudget : SpiderInit("jpt_latest", mp, read_last_date_from_csv(Missing))
  /\ pc' = "crawl"
  /\ script' = "update_csv"
  /\ UNCHANGED <<committed, tmpfile, master, outcome, pre, preBatch, out>>

\* WorldOilLatestSpider.__init__, lines 92-99, called with stop_at_last_date=1:
\* the flag is stored; no path is taken and no date is read
WorldOilLatest_init ==
  /\ pc = "idle"
  /\ spider = "worldoil_latest"
  /\ runsLeft > 0
  /\ runsLeft' = runsLeft - 1
  /\ max_pages' \in 1..MaxBudget
  /\ pages_seen' = 0
  /\ seen_urls' = {}
  /\ last_date' = None
  /\ listingQ' = StartRequests
  /\ listed' = StartRequests
  /\ detailQ' = {}
  /\ items' = <<>>
  /\ scheduled' = {}
  /\ stopAt' = 0
  /\ now' = now + 1
  /\ pc' = "crawl"
  /\ UNCHANGED <<spider, site>>
  /\ UNCHANGED <<sections, titles, detail_pages, retry_times, dropped, appVars, formats>>
  /\ UNCHANGED fileVars
  /\ UNCHANGED <<script, outcome, pre, preBatch, out>>

\* a committed file with one dated row is in place (for the worldoil
\* spiders it is also the file the launcher names) and one launcher starts
\* one crawl of its spider with stop_at_last_date=1
InitLaunch ==
  /\ \E sp \in {"jpt_latest", "worldoil_news", "worldoil_latest"} :
       /\ spider = sp
       /\ \E d \in 1..MaxDate :
            committed = Table(<<[url |-> "e", pd |-> d, sa |-> 1,
                                 source |-> IF sp = "jpt_latest" THEN "" ELSE "worldoil"]>>)
       /\ IF sp = "worldoil_latest"
          THEN site = <<>> /\ sections \in LatestSections
          ELSE site \in Sites /\ sections = <<>>
  /\ master = committed
  /\ batch = Missing
  /\ tmpfile = Missing
  /\ script = "none"
  /\ pc = "idle"
  /\ outcome = "none"
  /\ pre = Missing
  /\ preBatch = Missing
  /\ out = <<>>
  /\ runsLeft = 1
  /\ max_pages = 0
  /\ last_date = None
  /\ pages_seen = 0
  /\ listingQ = {}
  /\ detailQ = {}
  /\ items = <<>>
  /\ scheduled = {}
  /\ listed = {}
  /\ stopAt = 0
  /\ now = 1
  /\ seen_urls = {}
  /\ titles = [u \in AllUrls |-> "T"]
  /\ detail_pages = [u \in AllUrls |-> DefaultPage]
  /\ retry_times = <<>>
  /\ dropped = {}
  /\ NoApp

NextLaunch ==
  \/ run_scrape
  \/ scrape_new_main
  \/ scrape_worldoil_daily_main
  \/ WorldOilLatest_init
  \/ JptLatest_parse
  \/ JptLatest_parse_article
  \/ WorldOilNews_parse
  \/ WorldOilNews_parse_article
  \/ WorldOilLatest_parse
  \/ WorldOilLatest_parse_article
  \/ spider_closed

SpecLaunch == InitLaunch /\ [][NextLaunch]_vars

\* C29 (as the specification states it): once a crawl is launched with
\* stop_at_last_date=1 while the committed file holds dates, the spider's
\* hard-stop date is the latest of them and the crawl emits no record dated
\* on or before it.
C29_HardStopFromCommitted ==
  (pc \in {"crawl", "scraped"} /\ read_last_date_from_csv(committed) # None) =>
    /\ last_date = read_last_date_from_csv(committed)
    /\ \A i \in 1..Len(items) : items[i].pd > read_last_date_from_csv(committed)

\* the same for scrape_new with jpt_latest and scrape_worldoil_daily with
\* worldoil_news
C29_DailyLaunchers ==
  (script = "none" /\ spider # "worldoil_latest") => C29_HardStopFromCommitted

\* C30 (as the specification states it): a crawl of worldoil_latest with a
\* page budget max_pages > 0 requests at most max_pages listing pages in
\* total, over all sections.
C30_SharedBudgetBoundsListings ==
  (spider = "worldoil_latest" /\ max_pages > 0) => Cardinality(listed) <= max_pages

\* what the code keeps: every start url is requested, and only the parses
\* that run while pages_seen is below the budget request one more page
C30_StartUrlsPlusBudget ==
  (spider = "worldoil_latest" /\ max_pages > 0)
    => Cardinality(listed) <= NumSections + max_pages - 1

====
